---- MODULE Spec2Model ----
(***************************************************************************)
(* Membership consistency and capacity engine of the enrollment backend.   *)
(*                                                                         *)
(* State: the Student collection (membership rows, groupAttached), the     *)
(* Group collection (status, maxStudents, students mirror, attendance log, *)
(* document version), the clock, the attendance requests in flight, the    *)
(* balance-reset scheduler, and the outcome of the last request.  One      *)
(* action per request handler of student.controller.js                     *)
(* (src/unnamed/part_004), group.controller.js and the balance reset       *)
(* service (src/unnamed/part_003).                                         *)
(*                                                                         *)
(* Specifications:                                                         *)
(*   Spec            membership requests served one at a time, each handler*)
(*                   one atomic action; the clock stands still.            *)
(*   SpecJoin        attach / detach with joinedAt and a running clock.    *)
(*   SpecAttendance  upsertGroupAttendance served one at a time.           *)
(*   SpecConcurrent  two upsertGroupAttendance requests interleaved at     *)
(*                   their awaits (read the group, then save it).          *)
(*   SpecSweep       calls of resetStudentBalancesIfNeeded interleaved at  *)
(*                   their await.                                          *)
(*                                                                         *)
(* Fault model: a persistence call of the group-mirror update that follows *)
(* the student write may throw (input `fail` of the handlers), and so may  *)
(* the save of a group document and the updateMany of the sweep; the       *)
(* student write itself does not.  Scalar fields (names, phones, password, *)
(* membership and attendance markedBy) are not part of this state.         *)
(***************************************************************************)
EXTENDS Integers, Sequences, FiniteSets, TLC

\* ---------------------------------------------------------------- bounds
\* ids ever allocated, largest maxStudents a request sets, longest groups
\* list a request carries, and number of requests served in a run
NumStudents == 2
NumGroups == 2
MaxCap == 2
MaxListLen == 2
MaxRequests == 4
\* calendar days of attendance, attendance requests served in a run, requests
\* in flight at once, concurrent callers of the balance reset, clock ticks
NumDays == 2
MaxUpserts == 2
NumProcs == 2
NumCalls == 2
MaxTicks == 1
\* reward and balance requests served in a run
MaxAccountRequests == 2

Students == 1..NumStudents
Groups == 1..NumGroups
Days == 1..NumDays
Procs == 1..NumProcs
Calls == 1..NumCalls

\* --------------------------------------------------------------- domains
Undefined == "undefined"
Null == "null"

STUDENT_GROUP_STATUSES == {"active", "paused", "completed", "left"}
GROUP_STATUSES == {"planned", "active", "paused", "completed", "archived"}
ClosedGroupStatuses == {"completed", "archived"}
\* schema default of Group.maxStudents
DefaultMaxStudents == 15

\* request inputs exercised by the model
MemberStatusInputs == {Undefined, "active", "paused", "bogus"}
GroupStatusInputs == {Undefined, "active", "archived"}
\* maxStudents of a request body: NoNumber when the key is absent
NoNumber == -1
MaxStudentsInputs == {NoNumber} \cup (0..MaxCap)
\* groups of a request body: given = FALSE when the key is absent
GroupIdLists == UNION {[1..n -> Groups] : n \in 0..MaxListLen}
GroupsInputs == {[given |-> FALSE, ids |-> <<>>]} \cup {[given |-> TRUE, ids |-> l] : l \in GroupIdLists}
SyncFailures == {"none", "add", "remove"}
\* Date.now() when the process starts
Epoch == 10
\* joinedAt of a request body: NoDate when the key is absent, BadDate when it
\* does not parse, PastDate a date before the process started
NoDate == -1
BadDate == -2
PastDate == 0
JoinedAtInputs == {NoDate, BadDate, PastDate}

VARIABLES student, group, last, served, now, req, isResetRunning, lastResetRunAt, call, account

vars == <<student, group, last, served, now, req, isResetRunning, lastResetRunAt, call, account>>

\* the variables outside the Student and Group collections
attendanceVars == <<req>>
sweepVars == <<isResetRunning, lastResetRunAt, call, account>>

\* ------------------------------------------------------- generic helpers
Range(seq) == {seq[i] : i \in DOMAIN seq}

RECURSIVE SumOver(_, _)
SumOver(f, S) ==
    IF S = {} THEN 0
    ELSE LET x == CHOOSE y \in S : TRUE IN f[x] + SumOver(f, S \ {x})

RECURSIVE FilterSeq(_, _)
FilterSeq(seq, keep) ==
    IF seq = <<>> THEN <<>>
    ELSE IF keep[Head(seq).group]
         THEN <<Head(seq)>> \o FilterSeq(Tail(seq), keep)
         ELSE FilterSeq(Tail(seq), keep)

\* students.find(...): the documents that exist
LiveStudents == {s \in Students : student[s].state = "live"}
LiveGroups == {g \in Groups : group[g].state = "live"}

NoStudent == [state |-> "fresh", groups |-> <<>>, groupAttached |-> FALSE]
GoneStudent == [state |-> "deleted", groups |-> <<>>, groupAttached |-> FALSE]
NoGroup ==
    [state |-> "fresh", status |-> "planned", maxStudents |-> 1, students |-> {},
     attendance |-> <<>>, version |-> 0]
GoneGroup ==
    [state |-> "deleted", status |-> "planned", maxStudents |-> 1, students |-> {},
     attendance |-> <<>>, version |-> 0]

\* group ids of a membership list, student.groups.map(item => item.group)
GroupIdsOf(rows) == [i \in DOMAIN rows |-> rows[i].group]

\* number of rows of `rows` for group g with status active
ActiveRows(rows, g) ==
    Cardinality({i \in DOMAIN rows : rows[i].group = g /\ rows[i].status = "active"})

HasActiveRow(rows, g) == ActiveRows(rows, g) > 0

\* ids of the students holding any membership row for g
Holders(g) == {s \in LiveStudents : g \in Range(GroupIdsOf(student[s].groups))}

\* ------------------------------------------------------ student.model.js
\* groups.validate.validator: group ids unique within the list
GroupsValidator(rows) ==
    Cardinality(Range(GroupIdsOf(rows))) = Len(rows)

\* pre('validate') hook
PreValidate(doc) ==
    [doc EXCEPT !.groupAttached = \E i \in DOMAIN doc.groups : doc.groups[i].status = "active"]

\* ------------------------------------------------- student.controller.js
\* A group id of a request is a string. x > 0 is the 24 lower-case hex digits
\* that _id.toString() gives for group x; x < 0 is another spelling of the id
\* of group -x (upper-case hex digits), which isValidObjectId accepts and the
\* ObjectId cast maps to the same _id.
GroupOf(groupId) == IF groupId < 0 THEN 0 - groupId ELSE groupId

\* Group.find({ _id: { $in: groupIds } }): the ids are cast
FindGroups(groupIds) == {GroupOf(groupIds[i]) : i \in DOMAIN groupIds} \cap LiveGroups

\* found.has(groupId), groupsById.get(groupId): keyed by _id.toString()
FoundAs(groupId, found) == groupId \in found

\* groupIds.filter(groupId => !found.has(groupId))
MissingIds(groupIds, found) ==
    SelectSeq(groupIds, LAMBDA groupId : ~FoundAs(groupId, found))

\* the Set of normalizedIds holds strings
ParseGroupIds(input) ==
    IF ~input.given THEN [kind |-> Undefined, ids |-> <<>>]
    ELSE IF Cardinality(Range(input.ids)) # Len(input.ids) THEN [kind |-> Null, ids |-> <<>>]
    ELSE [kind |-> "ids", ids |-> input.ids]

\* rows of { group, status: 'active' }; joinedAt takes the schema default
ToStudentGroupMemberships(groupIds) ==
    [i \in DOMAIN groupIds |->
        [group |-> GroupOf(groupIds[i]), status |-> "active", joinedAt |-> now]]

\* aggregate: $match / $unwind / $match / $group, one count per group id
CountActiveMembershipsByGroupIds(groupIds, excludeStudentId) ==
    [g \in groupIds |->
        SumOver([s \in Students |-> ActiveRows(student[s].groups, g)],
                {s \in LiveStudents : s # excludeStudentId})]

Ok == [statusCode |-> 0, reason |-> "ok", group |-> 0, missing |-> <<>>]

\* the first id whose group (looked up by the string) is at its limit
RECURSIVE FirstFull(_, _, _)
FirstFull(ids, found, counts) ==
    IF ids = <<>> THEN 0
    ELSE IF /\ FoundAs(Head(ids), found)
            /\ counts[Head(ids)] >= group[Head(ids)].maxStudents
         THEN Head(ids)
    ELSE FirstFull(Tail(ids), found, counts)

ValidateGroupAssignments(groupIds, excludeStudentId) ==
    LET found == FindGroups(groupIds) IN
    IF groupIds = <<>> THEN Ok
    ELSE IF Cardinality(found) # Len(groupIds)
    THEN [statusCode |-> 400, reason |-> "missing", group |-> 0,
          missing |-> MissingIds(groupIds, found)]
    ELSE IF \E i \in DOMAIN groupIds :
                /\ FoundAs(groupIds[i], found)
                /\ group[groupIds[i]].status \in ClosedGroupStatuses
    THEN [statusCode |-> 400, reason |-> "closed", group |-> 0, missing |-> <<>>]
    ELSE LET activeCounts == CountActiveMembershipsByGroupIds(found, excludeStudentId)
             full == FirstFull(groupIds, found, activeCounts)
         IN IF full # 0
            THEN [statusCode |-> 409, reason |-> "full", group |-> full, missing |-> <<>>]
            ELSE Ok

\* outcome of syncGroupStudentLinks: the Group collection afterwards.
\* fail = "add": the add phase throws and nothing is written;
\* fail = "remove": the add phase is written, the remove phase throws.
SyncFeasible(previousGroupIds, nextGroupIds, fail) ==
    LET groupsToAdd == Range(nextGroupIds) \ Range(previousGroupIds)
        groupsToRemove == Range(previousGroupIds) \ Range(nextGroupIds)
    IN \/ fail = "none"
       \/ fail = "add" /\ groupsToAdd # {}
       \/ fail = "remove" /\ groupsToRemove # {}

\* the two sets hold strings; Group.find({ _id: { $in: ... } }) casts them
SyncGroupStudentLinks(grp, studentId, previousGroupIds, nextGroupIds, fail) ==
    LET groupsToAdd == Range(nextGroupIds) \ Range(previousGroupIds)
        groupsToRemove == Range(previousGroupIds) \ Range(nextGroupIds)
        added == [g \in Groups |->
                    IF /\ \E groupId \in groupsToAdd : GroupOf(groupId) = g
                       /\ grp[g].state = "live" /\ fail # "add"
                    THEN [grp[g] EXCEPT !.students = @ \cup {studentId}]
                    ELSE grp[g]]
    IN [g \in Groups |->
          IF /\ \E groupId \in groupsToRemove : GroupOf(groupId) = g
             /\ added[g].state = "live" /\ fail = "none"
          THEN [added[g] EXCEPT !.students = @ \ {studentId}]
          ELSE added[g]]

\* what the last request answered: handler, status code, cause, whether the
\* mirror update threw, and (deleteGroup) the number of students cascaded to
Result(op, code, reason) ==
    [op |-> op, code |-> code, reason |-> reason, syncFailed |-> FALSE, affected |-> 0]

FreshStudents == {s \in Students : student[s].state = "fresh"}
FreshGroups == {g \in Groups : group[g].state = "fresh"}
\* ids are allocated in increasing order and never reused
NextId(S) == CHOOSE x \in S : \A y \in S : x <= y

\* variant: the document is created before the seat check is evaluated
createStudent_writeFirst(input, fail) ==
    LET groups == ParseGroupIds(input) IN
    IF groups.kind = Null
    THEN /\ fail = "none"
         /\ last' = Result("createStudent", 400, "badgroups")
         /\ UNCHANGED <<student, group>>
    ELSE LET list == groups.ids
             groupValidation == ValidateGroupAssignments(list, 0)
             id == NextId(FreshStudents)
             doc == PreValidate([state |-> "live",
                                 groups |-> ToStudentGroupMemberships(list),
                                 groupAttached |-> FALSE])
         IN /\ FreshStudents # {}
            /\ student' = [student EXCEPT ![id] = doc]
            /\ IF groupValidation # Ok
               THEN /\ fail = "none"
                    /\ group' = group
                    /\ last' = Result("createStudent", groupValidation.statusCode,
                                      groupValidation.reason)
               ELSE /\ SyncFeasible(<<>>, list, fail)
                    /\ fail # "remove"
                    /\ group' = SyncGroupStudentLinks(group, id, <<>>, list, fail)
                    /\ last' = [Result("createStudent", 201, "ok")
                                  EXCEPT !.syncFailed = (fail # "none")]

createStudent(input, fail) ==
    LET groups == ParseGroupIds(input) IN
    IF groups.kind = Null
    THEN /\ fail = "none"
         /\ last' = Result("createStudent", 400, "badgroups")
         /\ UNCHANGED <<student, group>>
    ELSE LET list == groups.ids
             groupValidation == ValidateGroupAssignments(list, 0)
         IN IF groupValidation # Ok
            THEN /\ fail = "none"
                 /\ last' = Result("createStudent", groupValidation.statusCode, groupValidation.reason)
                 /\ UNCHANGED <<student, group>>
            ELSE /\ FreshStudents # {}
                 /\ SyncFeasible(<<>>, list, fail)
                 /\ fail # "remove"
                 /\ LET id == NextId(FreshStudents)
                        doc == PreValidate([state |-> "live",
                                            groups |-> ToStudentGroupMemberships(list),
                                            groupAttached |-> FALSE])
                    IN /\ student' = [student EXCEPT ![id] = doc]
                       /\ group' = SyncGroupStudentLinks(group, id, <<>>, list, fail)
                       /\ last' = [Result("createStudent", 201, "ok")
                                     EXCEPT !.syncFailed = (fail # "none")]

updateStudent(studentId, input, fail) ==
    LET groups == ParseGroupIds(input)
        groupValidation == IF input.given /\ groups.kind # Null
                           THEN ValidateGroupAssignments(groups.ids, studentId)
                           ELSE Ok
    IN
    IF input.given /\ groups.kind = Null
    THEN /\ fail = "none"
         /\ last' = Result("updateStudent", 400, "badgroups")
         /\ UNCHANGED <<student, group>>
    ELSE IF groupValidation # Ok
    THEN /\ fail = "none"
         /\ last' = Result("updateStudent", groupValidation.statusCode, groupValidation.reason)
         /\ UNCHANGED <<student, group>>
    ELSE IF studentId \notin LiveStudents
    THEN /\ fail = "none"
         /\ last' = Result("updateStudent", 404, "nostudent")
         /\ UNCHANGED <<student, group>>
    ELSE LET previousGroupIds == GroupIdsOf(student[studentId].groups)
             assigned == IF input.given
                         THEN [student[studentId] EXCEPT
                                 !.groups = ToStudentGroupMemberships(groups.ids)]
                         ELSE student[studentId]
             doc == PreValidate(assigned)
             nextGroupIds == GroupIdsOf(doc.groups)
         IN IF ~GroupsValidator(doc.groups)
            THEN /\ fail = "none"
                 /\ last' = Result("updateStudent", 400, "validation")
                 /\ UNCHANGED <<student, group>>
            ELSE /\ student' = [student EXCEPT ![studentId] = doc]
                 /\ IF input.given
                    THEN /\ SyncFeasible(previousGroupIds, nextGroupIds, fail)
                         /\ group' = SyncGroupStudentLinks(group, studentId,
                                        previousGroupIds, nextGroupIds, fail)
                    ELSE /\ fail = "none"
                         /\ group' = group
                 /\ last' = [Result("updateStudent", 200, "ok")
                               EXCEPT !.syncFailed = (fail # "none")]

deleteStudent(studentId, fail) ==
    IF studentId \notin LiveStudents
    THEN /\ fail = "none"
         /\ last' = Result("deleteStudent", 404, "nostudent")
         /\ UNCHANGED <<student, group>>
    ELSE LET previousGroupIds == GroupIdsOf(student[studentId].groups)
         IN /\ SyncFeasible(previousGroupIds, <<>>, fail)
            /\ student' = [student EXCEPT ![studentId] = GoneStudent]
            /\ group' = SyncGroupStudentLinks(group, studentId, previousGroupIds, <<>>, fail)
            /\ last' = [Result("deleteStudent", 200, "ok")
                          EXCEPT !.syncFailed = (fail # "none")]

\* ------------------------------------------------- group.controller.js
ParseGroupMemberStatus(input) ==
    IF input \in STUDENT_GROUP_STATUSES THEN input ELSE Null

\* Student.countDocuments: students (not rows) with an active row for groupId
CountActiveStudentsForGroup(groupId, excludeStudentId) ==
    Cardinality({s \in LiveStudents :
                    s # excludeStudentId /\ HasActiveRow(student[s].groups, groupId)})

\* $setUnion of the mirror with the student id; no document, no write
EnsureStudentInGroupList(grp, groupId, studentId) ==
    IF grp[groupId].state = "live"
    THEN [grp EXCEPT ![groupId].students = @ \cup {studentId}]
    ELSE grp

\* variant: the mirror is left as it is
RemoveStudentFromGroupList_keep(grp, groupId, studentId) == grp

\* $filter of the mirror
RemoveStudentFromGroupList(grp, groupId, studentId) ==
    IF grp[groupId].state = "live"
    THEN [grp EXCEPT ![groupId].students = @ \ {studentId}]
    ELSE grp

\* student.groups.findIndex(item => item.group.toString() === groupId), 0
\* for -1: the strings are compared, so only the lower-case spelling matches
MembershipIndex(rows, groupId) ==
    IF \E i \in DOMAIN rows : rows[i].group = groupId
    THEN CHOOSE i \in DOMAIN rows :
            /\ rows[i].group = groupId
            /\ \A j \in DOMAIN rows : rows[j].group = groupId => i <= j
    ELSE 0

\* the block guarded by membershipPayload.status === 'active'
SeatGuard(groupId, studentId, status, rows, membershipIndex) ==
    LET isActivatingNewSeat ==
            membershipIndex = 0 \/ rows[membershipIndex].status # "active"
    IN IF status # "active" THEN "ok"
       ELSE IF group[groupId].status \in ClosedGroupStatuses THEN "closed"
       ELSE IF /\ isActivatingNewSeat
               /\ CountActiveStudentsForGroup(groupId, studentId) >= group[groupId].maxStudents
       THEN "full"
       ELSE "ok"

\* variant: joinedAt of the existing row is not carried over
NextMembership_noRetain(groupId, status, joinedAt, rows, membershipIndex) ==
    [group |-> GroupOf(groupId), status |-> status,
     joinedAt |-> IF joinedAt # NoDate THEN joinedAt ELSE now]

\* joinedAt: membershipPayload.joinedAt || existingMembership?.joinedAt || new Date()
NextMembership(groupId, status, joinedAt, rows, membershipIndex) ==
    [group |-> GroupOf(groupId), status |-> status,
     joinedAt |-> IF joinedAt # NoDate THEN joinedAt
                  ELSE IF membershipIndex # 0 THEN rows[membershipIndex].joinedAt
                  ELSE now]

updateGroup(groupId, maxStudents, status) ==
    /\ UNCHANGED student
    /\ IF groupId \notin LiveGroups
       THEN /\ last' = Result("updateGroup", 404, "nogroup")
            /\ UNCHANGED group
       ELSE IF maxStudents # NoNumber /\ (maxStudents < 1 \/ maxStudents > 100)
       THEN /\ last' = Result("updateGroup", 400, "badmax")
            /\ UNCHANGED group
       ELSE IF status # Undefined /\ status \notin GROUP_STATUSES
       THEN /\ last' = Result("updateGroup", 400, "badstatus")
            /\ UNCHANGED group
       ELSE /\ group' = [group EXCEPT
                           ![groupId].maxStudents = IF maxStudents # NoNumber THEN maxStudents ELSE @,
                           ![groupId].status = IF status # Undefined THEN status ELSE @]
            /\ last' = Result("updateGroup", 200, "ok")

\* variant: the row is always pushed with an unvalidated update
attachStudentToGroup_push(groupId, studentId, bodyStatus, bodyJoinedAt, mirrorFail) ==
    IF GroupOf(groupId) \notin LiveGroups
    THEN /\ ~mirrorFail
         /\ last' = Result("attach", 404, "nogroup")
         /\ UNCHANGED <<student, group>>
    ELSE IF studentId \notin LiveStudents
    THEN /\ ~mirrorFail
         /\ last' = Result("attach", 404, "nostudent")
         /\ UNCHANGED <<student, group>>
    ELSE
    LET rows == student[studentId].groups
        membershipIndex == MembershipIndex(rows, groupId)
        hasExisting == membershipIndex # 0
        requested == IF bodyStatus = Undefined
                     THEN (IF hasExisting THEN rows[membershipIndex].status ELSE "active")
                     ELSE bodyStatus
        status == ParseGroupMemberStatus(requested)
        joinedAt == bodyJoinedAt
        guard == SeatGuard(GroupOf(groupId), studentId, status, rows, membershipIndex)
        nextMembership == NextMembership(groupId, status, joinedAt, rows, membershipIndex)
        nextRows == Append(rows, nextMembership)
        doc == PreValidate([student[studentId] EXCEPT !.groups = nextRows])
        res(code, reason) == Result("attach", code, reason)
    IN
    IF status = Null
    THEN /\ ~mirrorFail
         /\ last' = res(400, "badstatus")
         /\ UNCHANGED <<student, group>>
    ELSE IF joinedAt = BadDate
    THEN /\ ~mirrorFail
         /\ last' = res(400, "badjoined")
         /\ UNCHANGED <<student, group>>
    ELSE IF guard = "closed"
    THEN /\ ~mirrorFail
         /\ last' = res(400, "closed")
         /\ UNCHANGED <<student, group>>
    ELSE IF guard = "full"
    THEN /\ ~mirrorFail
         /\ last' = res(409, "full")
         /\ UNCHANGED <<student, group>>
    ELSE /\ student' = [student EXCEPT ![studentId] = doc]
         /\ IF mirrorFail
            THEN /\ group' = group
                 /\ last' = [res(500, "mirror") EXCEPT !.syncFailed = TRUE]
            ELSE /\ group' = EnsureStudentInGroupList(group, GroupOf(groupId), studentId)
                 /\ last' = res(IF hasExisting THEN 200 ELSE 201, "ok")

attachStudentToGroup(groupId, studentId, bodyStatus, bodyJoinedAt, mirrorFail) ==
    IF GroupOf(groupId) \notin LiveGroups
    THEN /\ ~mirrorFail
         /\ last' = Result("attach", 404, "nogroup")
         /\ UNCHANGED <<student, group>>
    ELSE IF studentId \notin LiveStudents
    THEN /\ ~mirrorFail
         /\ last' = Result("attach", 404, "nostudent")
         /\ UNCHANGED <<student, group>>
    ELSE
    LET rows == student[studentId].groups
        membershipIndex == MembershipIndex(rows, groupId)
        hasExisting == membershipIndex # 0
        requested == IF bodyStatus = Undefined
                     THEN (IF hasExisting THEN rows[membershipIndex].status ELSE "active")
                     ELSE bodyStatus
        status == ParseGroupMemberStatus(requested)
        joinedAt == bodyJoinedAt
        guard == SeatGuard(GroupOf(groupId), studentId, status, rows, membershipIndex)
        nextMembership == NextMembership(groupId, status, joinedAt, rows, membershipIndex)
        nextRows == IF hasExisting
                    THEN [rows EXCEPT ![membershipIndex] = nextMembership]
                    ELSE Append(rows, nextMembership)
        doc == PreValidate([student[studentId] EXCEPT !.groups = nextRows])
        res(code, reason) == Result("attach", code, reason)
    IN
    IF status = Null
    THEN /\ ~mirrorFail
         /\ last' = res(400, "badstatus")
         /\ UNCHANGED <<student, group>>
    ELSE IF joinedAt = BadDate
    THEN /\ ~mirrorFail
         /\ last' = res(400, "badjoined")
         /\ UNCHANGED <<student, group>>
    ELSE IF guard = "closed"
    THEN /\ ~mirrorFail
         /\ last' = res(400, "closed")
         /\ UNCHANGED <<student, group>>
    ELSE IF guard = "full"
    THEN /\ ~mirrorFail
         /\ last' = res(409, "full")
         /\ UNCHANGED <<student, group>>
    ELSE IF ~GroupsValidator(doc.groups)
    THEN /\ ~mirrorFail
         /\ last' = res(400, "validation")
         /\ UNCHANGED <<student, group>>
    ELSE /\ student' = [student EXCEPT ![studentId] = doc]
         /\ IF mirrorFail
            THEN /\ group' = group
                 /\ last' = [res(500, "mirror") EXCEPT !.syncFailed = TRUE]
            ELSE /\ group' = EnsureStudentInGroupList(group, GroupOf(groupId), studentId)
                 /\ last' = res(IF hasExisting THEN 200 ELSE 201, "ok")

detachStudentFromGroup(groupId, studentId, mirrorFail) ==
    IF GroupOf(groupId) \notin LiveGroups
    THEN /\ ~mirrorFail
         /\ last' = Result("detach", 404, "nogroup")
         /\ UNCHANGED <<student, group>>
    ELSE IF studentId \notin LiveStudents
    THEN /\ ~mirrorFail
         /\ last' = Result("detach", 404, "nostudent")
         /\ UNCHANGED <<student, group>>
    ELSE
    LET rows == student[studentId].groups
        nextRows == FilterSeq(rows, [g \in Groups |-> g # groupId])
        doc == PreValidate([student[studentId] EXCEPT !.groups = nextRows])
    IN
    IF Len(nextRows) = Len(rows)
    THEN /\ ~mirrorFail
         /\ last' = Result("detach", 404, "notattached")
         /\ UNCHANGED <<student, group>>
    ELSE IF ~GroupsValidator(doc.groups)
    THEN /\ ~mirrorFail
         /\ last' = Result("detach", 500, "validation")
         /\ UNCHANGED <<student, group>>
    ELSE /\ student' = [student EXCEPT ![studentId] = doc]
         /\ IF mirrorFail
            THEN /\ group' = group
                 /\ last' = [Result("detach", 500, "mirror")
                               EXCEPT !.syncFailed = TRUE]
            ELSE /\ group' = RemoveStudentFromGroupList(group, GroupOf(groupId), studentId)
                 /\ last' = Result("detach", 200, "ok")

\* the two Student.updateMany of the cascade: $pull of the rows of groupId,
\* then groupAttached recomputed by the pipeline for the affected students
\* variant: $pull without the group filter empties the list
CascadePull_all(doc, groupId) ==
    [doc EXCEPT !.groups = <<>>]

CascadePull(doc, groupId) ==
    [doc EXCEPT !.groups = FilterSeq(@, [g \in Groups |-> g # groupId])]

\* variant: the second updateMany is missing
CascadeFlag_skip(doc) == doc

CascadeFlag(doc) ==
    [doc EXCEPT !.groupAttached =
        Cardinality({i \in DOMAIN doc.groups : doc.groups[i].status = "active"}) > 0]

deleteGroup(groupId) ==
    IF groupId \notin LiveGroups
    THEN /\ last' = Result("deleteGroup", 404, "nogroup")
         /\ UNCHANGED <<student, group>>
    ELSE LET affectedStudents == Holders(groupId)
         IN /\ group' = [group EXCEPT ![groupId] = GoneGroup]
            /\ student' = [s \in Students |->
                             IF s \in affectedStudents
                             THEN CascadeFlag(CascadePull(student[s], groupId))
                             ELSE student[s]]
            /\ last' = [Result("deleteGroup", 200, "ok")
                          EXCEPT !.affected = Cardinality(affectedStudents)]

\* no attendance request in flight, the scheduler as the module is loaded
IdleRequest ==
    [pc |-> "idle", group |-> 0, date |-> 0, records |-> <<>>, base |-> <<>>, version |-> 0]
IdleCall == [pc |-> "idle", at |-> 0, force |-> FALSE]
NoAccount == [balance |-> 0, balanceResetAt |-> 0, coinBalance |-> 0]

InitQuiet ==
    /\ last = Result("init", 0, "ok")
    /\ served = 0
    /\ now = Epoch
    /\ req = [p \in Procs |-> IdleRequest]
    /\ isResetRunning = FALSE
    /\ lastResetRunAt = 0
    /\ call = [c \in Calls |-> IdleCall]
    /\ account = [s \in Students |-> NoAccount]

Init ==
    /\ student = [s \in Students |-> NoStudent]
    /\ group = [g \in Groups |-> NoGroup]
    /\ InitQuiet

\* the server takes one more request, up to the bound of the model
Serve ==
    /\ served < MaxRequests
    /\ served' = served + 1
    /\ UNCHANGED <<now, attendanceVars, sweepVars>>

createGroup(maxStudents, status) ==
    /\ UNCHANGED student
    /\ IF status # Undefined /\ status \notin GROUP_STATUSES
       THEN /\ last' = Result("createGroup", 400, "badstatus")
            /\ UNCHANGED group
       ELSE IF maxStudents # NoNumber /\ (maxStudents < 1 \/ maxStudents > 100)
       THEN /\ last' = Result("createGroup", 400, "badmax")
            /\ UNCHANGED group
       ELSE /\ FreshGroups # {}
            /\ group' = [group EXCEPT ![NextId(FreshGroups)] =
                           [state |-> "live",
                            status |-> IF status # Undefined THEN status ELSE "planned",
                            maxStudents |-> IF maxStudents # NoNumber THEN maxStudents
                                            ELSE DefaultMaxStudents,
                            students |-> {},
                            attendance |-> <<>>,
                            version |-> 0]]
            /\ last' = Result("createGroup", 201, "ok")

\* the requests of clients that write every id as the API returned it (lower
\* case); SpecJoin and SpecEnroll below take the ids in either spelling
Next ==
    \/ \E m \in MaxStudentsInputs \ {NoNumber}, st \in GroupStatusInputs \ {Undefined} :
          Serve /\ createGroup(m, st)
    \/ \E g \in Groups, m \in MaxStudentsInputs, st \in GroupStatusInputs :
          Serve /\ updateGroup(g, m, st)
    \/ \E g \in Groups : Serve /\ deleteGroup(g)
    \/ \E input \in GroupsInputs, fail \in SyncFailures : Serve /\ createStudent(input, fail)
    \/ \E s \in Students, input \in GroupsInputs, fail \in SyncFailures :
          Serve /\ updateStudent(s, input, fail)
    \/ \E s \in Students, fail \in SyncFailures : Serve /\ deleteStudent(s, fail)
    \/ \E g \in Groups, s \in Students, st \in MemberStatusInputs, f \in BOOLEAN :
          Serve /\ attachStudentToGroup(g, s, st, NoDate, f)
    \/ \E g \in Groups, s \in Students, f \in BOOLEAN :
          Serve /\ detachStudentFromGroup(g, s, f)

Spec == Init /\ [][Next]_vars

\* ------------------------------------------- attach / detach over time
\* the state after two createGroup requests (open groups of MaxCap seats)
\* and one createStudent request without groups
OpenGroup ==
    [state |-> "live", status |-> "active", maxStudents |-> MaxCap, students |-> {},
     attendance |-> <<>>, version |-> 0]

InitJoin ==
    /\ student = [s \in Students |->
                     IF s = 1 THEN [NoStudent EXCEPT !.state = "live"] ELSE NoStudent]
    /\ group = [g \in Groups |-> IF g <= 2 THEN OpenGroup ELSE NoGroup]
    /\ InitQuiet

\* a request of a specification that does not bound the number of requests
Handle == UNCHANGED <<served, now, attendanceVars, sweepVars>>

\* Date.now() moves on between two requests
Tick ==
    /\ now < Epoch + MaxTicks
    /\ now' = now + 1
    /\ UNCHANGED <<student, group, last, served, attendanceVars, sweepVars>>

\* the ids a client can write for the groups: both spellings of every id
SpelledGroupIds == Groups \cup {0 - g : g \in Groups}

NextJoin ==
    \/ Tick
    \/ \E g \in SpelledGroupIds, s \in Students, st \in MemberStatusInputs,
          j \in JoinedAtInputs :
          Handle /\ attachStudentToGroup(g, s, st, j, FALSE)
    \/ \E g \in SpelledGroupIds, s \in Students :
          Handle /\ detachStudentFromGroup(g, s, FALSE)

SpecJoin == InitJoin /\ [][NextJoin]_vars

\* ------------------------------------- group lists as a client spells them
SpelledLists == UNION {[1..n -> SpelledGroupIds] : n \in 1..MaxListLen}
SpelledInputs == {[given |-> TRUE, ids |-> l] : l \in SpelledLists}

\* student 1 holds a seat of group 1; group 2 was archived or does not exist
InitEnroll ==
    /\ student = [s \in Students |->
                     IF s = 1
                     THEN PreValidate([state |-> "live",
                                       groups |-> <<[group |-> 1, status |-> "active",
                                                     joinedAt |-> PastDate]>>,
                                       groupAttached |-> FALSE])
                     ELSE NoStudent]
    /\ \E cap \in 1..MaxCap, other \in {NoGroup, [OpenGroup EXCEPT !.status = "archived"]} :
          group = [g \in Groups |->
                     IF g = 1 THEN [OpenGroup EXCEPT !.maxStudents = cap, !.students = {1}]
                     ELSE IF g = 2 THEN other
                     ELSE NoGroup]
    /\ InitQuiet

NextEnroll ==
    \/ Tick
    \/ \E input \in SpelledInputs : Handle /\ createStudent(input, "none")
    \/ \E s \in Students, input \in SpelledInputs : Handle /\ updateStudent(s, input, "none")

SpecEnroll == InitEnroll /\ [][NextEnroll]_vars

\* ------------------------------------------------------------ attendance
ATTENDANCE_STATUSES == {"present", "absent", "late", "excused"}
\* length of a calendar day on the clock
TicksPerDay == 2

\* date.toISOString().slice(0, 10): the calendar day of a timestamp
ToDateKey(date) == date \div TicksPerDay

\* what a request marks: a first sitting in the morning, a correction in the
\* evening, and the correction sent with the first student id in upper case
Sittings ==
    { [tick |-> 0, status |-> "present", note |-> Undefined, upper |-> FALSE],
      [tick |-> 1, status |-> "absent", note |-> "sick", upper |-> FALSE],
      [tick |-> 1, status |-> "absent", note |-> "sick", upper |-> TRUE] }

StudentIdLists == UNION {[1..n -> Students] : n \in 0..MaxListLen}

\* body.date: BadDate when it does not parse
DateOf(day, sitting) == IF day = 0 THEN BadDate ELSE day * TicksPerDay + sitting.tick

\* body.records: student is the id as the client wrote it (canonical = the
\* lower-case hex that ObjectId.toString() gives)
RecordsOf(ids, sitting) ==
    [i \in DOMAIN ids |->
        [student |-> ids[i], canonical |-> ~(sitting.upper /\ i = 1),
         status |-> sitting.status, note |-> sitting.note]]

\* group.attendance.findIndex: item.student.toString() === record.student
\* && toDateKey(item.date) === dateKey; 0 for -1
FindAttendance(log, record, dateKey) ==
    LET hits == {i \in DOMAIN log :
                    /\ log[i].student = record.student
                    /\ record.canonical
                    /\ ToDateKey(log[i].date) = dateKey}
    IN IF hits = {} THEN 0 ELSE CHOOSE i \in hits : \A j \in hits : i <= j

\* the for loop over the records on the loaded document
RECURSIVE MergeAttendance(_, _, _)
MergeAttendance(log, records, date) ==
    IF records = <<>> THEN log
    ELSE LET record == Head(records)
             recordIndex == FindAttendance(log, record, ToDateKey(date))
             payload == [student |-> record.student, date |-> date,
                         status |-> record.status, note |-> record.note]
         IN MergeAttendance(IF recordIndex = 0
                            THEN Append(log, payload)
                            ELSE [log EXCEPT ![recordIndex] = payload],
                            Tail(records), date)

\* group.model.js attendance.validate: one entry per student and day
AttendanceValidator(log) ==
    \A i, j \in DOMAIN log :
        (log[i].student = log[j].student /\ ToDateKey(log[i].date) = ToDateKey(log[j].date))
        => i = j

\* variant: any membership row of the group counts
ActiveMembers_anyStatus(groupId, records) ==
    {s \in LiveStudents :
        /\ \E i \in DOMAIN records : records[i].student = s
        /\ \E i \in DOMAIN student[s].groups : student[s].groups[i].group = groupId}

\* Student.find({ _id: { $in: studentIds }, groups: { $elemMatch: ... } })
ActiveMembers(groupId, records) ==
    {s \in LiveStudents :
        /\ \E i \in DOMAIN records : records[i].student = s
        /\ HasActiveRow(student[s].groups, groupId)}

\* variant: the members found are compared with the number of distinct ids
CheckAttendance_distinctCount(groupId, date, records) ==
    LET studentIds == [i \in DOMAIN records |-> <<records[i].student, records[i].canonical>>]
        activeMembers == ActiveMembers(groupId, records)
    IN IF date = BadDate \/ records = <<>>
       THEN [statusCode |-> 400, reason |-> "required", group |-> 0]
       ELSE IF Cardinality(Range(studentIds)) # Len(studentIds)
       THEN [statusCode |-> 400, reason |-> "duplicate", group |-> 0]
       ELSE IF groupId \notin LiveGroups
       THEN [statusCode |-> 404, reason |-> "nogroup", group |-> 0]
       ELSE IF Cardinality(activeMembers) #
               Cardinality({records[i].student : i \in DOMAIN records})
       THEN [statusCode |-> 400, reason |-> "notactive", group |-> 0]
       ELSE Ok

\* the checks of the handler before the merge
CheckAttendance(groupId, date, records) ==
    LET studentIds == [i \in DOMAIN records |-> <<records[i].student, records[i].canonical>>]
        activeMembers == ActiveMembers(groupId, records)
    IN IF date = BadDate \/ records = <<>>
       THEN [statusCode |-> 400, reason |-> "required", group |-> 0]
       ELSE IF Cardinality(Range(studentIds)) # Len(studentIds)
       THEN [statusCode |-> 400, reason |-> "duplicate", group |-> 0]
       ELSE IF groupId \notin LiveGroups
       THEN [statusCode |-> 404, reason |-> "nogroup", group |-> 0]
       ELSE IF Cardinality(activeMembers) # Len(studentIds)
       THEN [statusCode |-> 400, reason |-> "notactive", group |-> 0]
       ELSE Ok

\* indexes of the loaded array that the loop assigned
Replaced(base, records, date) ==
    {i \in DOMAIN base :
        \E k \in DOMAIN records : FindAttendance(base, records[k], ToDateKey(date)) = i}

\* group.save() refused with a VersionError: the update carries the loaded
\* version when an element of the array was assigned
SaveConflicts(doc, base, version, records, date) ==
    Replaced(base, records, date) # {} /\ doc.version # version

\* variant: the save stops after the first record of the batch
WriteAttendance_firstOnly(doc, base, records, date) ==
    [doc EXCEPT !.attendance = MergeAttendance(@, <<Head(records)>>, date),
                !.version = @ + 1]

\* group.save(): what the update does to the stored document. Entries only
\* pushed: $push of the new entries; only assigned: $set of those elements;
\* both: $set of the whole array
WriteAttendance(doc, base, records, date) ==
    LET merged == MergeAttendance(base, records, date)
        pushed == SubSeq(merged, Len(base) + 1, Len(merged))
        replaced == Replaced(base, records, date)
    IN IF replaced = {}
       THEN [doc EXCEPT !.attendance = @ \o pushed, !.version = @ + 1]
       ELSE IF pushed = <<>>
       THEN [doc EXCEPT !.attendance =
                [i \in DOMAIN @ |-> IF i \in replaced THEN merged[i] ELSE @[i]]]
       ELSE [doc EXCEPT !.attendance = merged, !.version = @ + 1]

\* the request has entered the handler with its body (first await)
ReceiveAttendance(p, groupId, date, records) ==
    /\ req[p].pc = "idle"
    /\ served < MaxUpserts
    /\ served' = served + 1
    /\ req' = [req EXCEPT ![p] = [pc |-> "received", group |-> groupId, date |-> date,
                                  records |-> records, base |-> <<>>, version |-> 0]]
    /\ UNCHANGED <<student, group, last, now, sweepVars>>

\* validation and Group.findById: the document as loaded
ReadAttendance(p) ==
    /\ req[p].pc = "received"
    /\ LET r == req[p]
           check == CheckAttendance(r.group, r.date, r.records)
       IN IF check # Ok
          THEN /\ last' = Result("attendance", check.statusCode, check.reason)
               /\ req' = [req EXCEPT ![p] = IdleRequest]
          ELSE /\ last' = last
               /\ req' = [req EXCEPT ![p].pc = "loaded",
                                      ![p].base = group[r.group].attendance,
                                      ![p].version = group[r.group].version]
    /\ UNCHANGED <<student, group, served, now, sweepVars>>

\* the merge on the loaded document and group.save()
SaveAttendance(p, saveFail) ==
    /\ req[p].pc = "loaded"
    /\ LET r == req[p]
           merged == MergeAttendance(r.base, r.records, r.date)
       IN IF ~AttendanceValidator(merged)
          THEN /\ ~saveFail
               /\ last' = Result("attendance", 400, "validation")
               /\ group' = group
          ELSE IF saveFail \/ group[r.group].state # "live"
          THEN /\ last' = Result("attendance", 500, "save")
               /\ group' = group
          ELSE IF SaveConflicts(group[r.group], r.base, r.version, r.records, r.date)
          THEN /\ last' = Result("attendance", 500, "version")
               /\ group' = group
          ELSE /\ last' = Result("attendance", 200, "ok")
               /\ group' = [group EXCEPT ![r.group] =
                               WriteAttendance(@, r.base, r.records, r.date)]
    /\ req' = [req EXCEPT ![p] = IdleRequest]
    /\ UNCHANGED <<student, served, now, sweepVars>>

\* the whole handler when no other request runs in between
upsertGroupAttendance(p, saveFail) ==
    /\ req[p].pc = "received"
    /\ LET r == req[p]
           check == CheckAttendance(r.group, r.date, r.records)
           base == group[r.group].attendance
           merged == MergeAttendance(base, r.records, r.date)
       IN IF check # Ok
          THEN /\ ~saveFail
               /\ last' = Result("attendance", check.statusCode, check.reason)
               /\ group' = group
          ELSE IF ~AttendanceValidator(merged)
          THEN /\ ~saveFail
               /\ last' = Result("attendance", 400, "validation")
               /\ group' = group
          ELSE IF saveFail
          THEN /\ last' = Result("attendance", 500, "save")
               /\ group' = group
          ELSE /\ last' = Result("attendance", 200, "ok")
               /\ group' = [group EXCEPT ![r.group] =
                               WriteAttendance(@, base, r.records, r.date)]
    /\ req' = [req EXCEPT ![p] = IdleRequest]
    /\ UNCHANGED <<student, served, now, sweepVars>>

\* the state after one createGroup and createStudent / attach requests: one
\* open group, student 1 an active member, student 2 an active or a paused
\* member, no other student
Member(status) ==
    [state |-> "live",
     groups |-> <<[group |-> 1, status |-> status, joinedAt |-> Epoch]>>,
     groupAttached |-> (status = "active")]

InitAttendance ==
    /\ \E st \in {"active", "paused"} :
          student = [s \in Students |->
                        IF s = 1 THEN Member("active")
                        ELSE IF s = 2 THEN Member(st)
                        ELSE NoStudent]
    /\ group = [g \in Groups |->
                   IF g = 1 THEN [OpenGroup EXCEPT !.students = {1, 2}] ELSE NoGroup]
    /\ InitQuiet

NextAttendance ==
    \/ /\ req[1].pc = "idle"
       /\ \E g \in Groups, day \in 0..NumDays, ids \in StudentIdLists, sitting \in Sittings :
             ReceiveAttendance(1, g, DateOf(day, sitting), RecordsOf(ids, sitting))
    \/ \E saveFail \in BOOLEAN : upsertGroupAttendance(1, saveFail)

SpecAttendance == InitAttendance /\ [][NextAttendance]_vars

NextConcurrent ==
    \/ \E p \in Procs :
          /\ req[p].pc = "idle"
          /\ \E g \in Groups, day \in 0..NumDays, ids \in StudentIdLists, sitting \in Sittings :
                ReceiveAttendance(p, g, DateOf(day, sitting), RecordsOf(ids, sitting))
    \/ \E p \in Procs : ReadAttendance(p)
    \/ \E p \in Procs, saveFail \in BOOLEAN : SaveAttendance(p, saveFail)

SpecConcurrent == InitAttendance /\ [][NextConcurrent]_vars
\* =================================================================== claims
\* students holding a membership in g with status active
ActiveSeats(g) == {s \in LiveStudents : HasActiveRow(student[s].groups, g)}

\* the students mirror of every group equals the holders of a row for it
MirrorConsistent == \A g \in LiveGroups : group[g].students = Holders(g)

Succeeded(r) == r.code \in {200, 201}

\* C1: with requests served one at a time, after every request the number of
\* students with an active membership in a group is at most its maxStudents.
C1_SeatsWithinCapacity ==
    \A g \in LiveGroups : Cardinality(ActiveSeats(g)) <= group[g].maxStudents

\* C2: on an open group, however the request spells its id, attaching with
\* status active a student who holds no active membership there succeeds iff
\* fewer than maxStudents OTHER students are active in it, and is otherwise
\* rejected with the capacity error (409) leaving the student as it was.
C2_AttachActiveIffSeatFree ==
    [][\A groupId \in SpelledGroupIds, s \in Students :
          LET g == GroupOf(groupId) IN
          ( /\ last'.op = "attach"
            /\ attachStudentToGroup(groupId, s, "active", NoDate, FALSE)
            /\ g \in LiveGroups
            /\ s \in LiveStudents
            /\ group[g].status \notin ClosedGroupStatuses
            /\ ~HasActiveRow(student[s].groups, g) )
          => IF Cardinality(ActiveSeats(g) \ {s}) < group[g].maxStudents
             THEN /\ Succeeded(last')
                  /\ HasActiveRow(student'[s].groups, g)
             ELSE /\ last'.code = 409
                  /\ last'.reason = "full"
                  /\ student' = student
      ]_vars

\* C3: while a group is completed or archived no request gives a student an
\* active membership in it that the student did not hold as active before.
C3_ClosedGroupGainsNoActiveSeat ==
    [][\A g \in LiveGroups :
          group[g].status \in ClosedGroupStatuses
          => \A s \in Students :
                HasActiveRow(student'[s].groups, g) => HasActiveRow(student[s].groups, g)
      ]_vars

\* C4: a createStudent, updateStudent or attach request rejected before the
\* membership write (bad or duplicate group list, unknown group, closed
\* group, seat limit) changes no membership list, no groupAttached flag and
\* no students mirror.
PreWriteRejections == {"badgroups", "missing", "closed", "full"}

C4_RejectionWritesNothing ==
    [][( /\ last'.op \in {"createStudent", "updateStudent", "attach"}
         /\ last'.reason \in PreWriteRejections )
       => (student' = student /\ group' = group)
      ]_vars

C4_Witness ==
    /\ last.op = "createStudent"
    /\ last.code = 409
    /\ last.reason = "full"
    /\ \E g \in LiveGroups : Cardinality(ActiveSeats(g)) >= group[g].maxStudents

\* C5: for every student, groupAttached is true iff some membership row of
\* the student has status active.
C5_GroupAttachedIsDerived ==
    \A s \in LiveStudents :
        student[s].groupAttached <=>
            (\E i \in DOMAIN student[s].groups : student[s].groups[i].status = "active")

C5_Witness ==
    /\ last.op = "deleteGroup"
    /\ last.affected > 0
    /\ \E s \in LiveStudents : ~student[s].groupAttached

\* C6: no student's membership list holds two rows for the same group.
C6_NoDuplicateMembership ==
    \A s \in Students :
        \A i, j \in DOMAIN student[s].groups :
            i # j => student[s].groups[i].group # student[s].groups[j].group

C6_Witness ==
    /\ last.op = "attach"
    /\ last.code = 200
    /\ \E s \in LiveStudents : Len(student[s].groups) = 2

\* C7: when the mirror update of student s failed after its membership write
\* (and the only drift is about s), the next membership mutation of s that
\* completes without failure leaves every mirror equal to the holders.
MembershipMutationOf(s) ==
    \/ \E input \in GroupsInputs : input.given /\ updateStudent(s, input, "none")
    \/ \E g \in Groups, st \in MemberStatusInputs : attachStudentToGroup(g, s, st, NoDate, FALSE)
    \/ \E g \in Groups : detachStudentFromGroup(g, s, FALSE)

DriftOnlyAbout(s) ==
    \A g \in LiveGroups :
        (group[g].students \ Holders(g)) \cup (Holders(g) \ group[g].students) \subseteq {s}

C7_NextMutationRepairsMirror ==
    [][\A s \in Students :
          ( /\ last.syncFailed
            /\ ~MirrorConsistent
            /\ DriftOnlyAbout(s)
            /\ MembershipMutationOf(s)
            /\ Succeeded(last') )
          => MirrorConsistent'
      ]_vars

\* C8: a failure of the mirror update that follows the committed student
\* write never fails the request: it still answers with success.
C8_MirrorFailureSwallowed ==
    last.syncFailed => Succeeded(last)

\* C9: after a successful deleteGroup(g) no student has a row for g, every
\* student that had one has groupAttached recomputed from the rows left, and
\* rows of other groups are as before.
C9_DeleteGroupCascade ==
    [][\A g \in Groups :
          (last'.op = "deleteGroup" /\ last'.code = 200 /\ deleteGroup(g))
          => \A s \in Students :
                /\ \A i \in DOMAIN student'[s].groups : student'[s].groups[i].group # g
                /\ student'[s].groups = SelectSeq(student[s].groups, LAMBDA r : r.group # g)
                /\ (\E i \in DOMAIN student[s].groups : student[s].groups[i].group = g)
                   => ( student'[s].groupAttached <=>
                          \E i \in DOMAIN student'[s].groups :
                              student'[s].groups[i].status = "active" )
      ]_vars

C9_Witness ==
    /\ last.op = "deleteGroup"
    /\ last.code = 200
    /\ last.affected > 0
    /\ \E s \in LiveStudents : student[s].groups # <<>>

\* C10: after a successful deleteStudent(s) no group's students mirror holds
\* s, whatever requests (failed mirror updates included) came before.
C10_DeletedStudentInNoMirror ==
    [][\A s \in Students :
          (last'.op = "deleteStudent" /\ last'.code = 200 /\ deleteStudent(s, "none"))
          => \A g \in Groups : s \notin group'[g].students
      ]_vars

\* C11: detachStudentFromGroup(g, s) on an existing group and student,
\* however the request spells the id of g, when no persistence call fails:
\* if s has no row for g it answers not-found and changes neither collection; otherwise it removes exactly the row of g
\* (the other rows of s and all other students as before), removes s from
\* the students mirror of g only, and recomputes groupAttached of s.
C11_DetachRemovesExactlyThatRow ==
    [][last'.op = "detach" =>
        \A groupId \in SpelledGroupIds, s \in LiveStudents :
          LET g == GroupOf(groupId) IN
          g \in LiveGroups /\ detachStudentFromGroup(groupId, s, FALSE)
          => IF \A i \in DOMAIN student[s].groups : student[s].groups[i].group # g
             THEN /\ last'.code = 404
                  /\ student' = student
                  /\ group' = group
             ELSE /\ last'.code = 200
                  /\ student'[s].groups = SelectSeq(student[s].groups, LAMBDA r : r.group # g)
                  /\ Len(student'[s].groups) = Len(student[s].groups) - 1
                  /\ \A t \in Students \ {s} : student'[t] = student[t]
                  /\ s \notin group'[g].students
                  /\ group'[g].students = group[g].students \ {s}
                  /\ \A h \in Groups \ {g} : group'[h] = group[h]
                  /\ student'[s].groupAttached <=>
                        \E i \in DOMAIN student'[s].groups :
                            student'[s].groups[i].status = "active"
      ]_vars

\* C12: a successful attachStudentToGroup(g, s), however the request spells
\* the id of g, appends a row for g when s had none (joinedAt = the supplied
\* date, else now) and answers 201; when s had one it replaces that row in place (joinedAt = the supplied date, else
\* the previous joinedAt) and answers 200; the rows of s for other groups
\* are unchanged and s is in the students mirror of g afterwards.
C12_AttachAppendsOrReplacesInPlace ==
    [][\A groupId \in SpelledGroupIds, s \in Students, st \in MemberStatusInputs,
          j \in JoinedAtInputs :
          LET g == GroupOf(groupId) IN
          ( /\ last'.op = "attach"
            /\ Succeeded(last')
            /\ s \in LiveStudents
            /\ g \in LiveGroups
            /\ attachStudentToGroup(groupId, s, st, j, FALSE) )
          => LET rows == student[s].groups
                 after == student'[s].groups
             IN /\ s \in group'[g].students
                /\ IF \A i \in DOMAIN rows : rows[i].group # g
                   THEN /\ last'.code = 201
                        /\ Len(after) = Len(rows) + 1
                        /\ SubSeq(after, 1, Len(rows)) = rows
                        /\ after[Len(after)].group = g
                        /\ after[Len(after)].joinedAt = (IF j # NoDate THEN j ELSE now)
                   ELSE /\ last'.code = 200
                        /\ Len(after) = Len(rows)
                        /\ \A i \in DOMAIN rows :
                              IF rows[i].group # g
                              THEN after[i] = rows[i]
                              ELSE /\ after[i].group = g
                                   /\ after[i].joinedAt =
                                        (IF j # NoDate THEN j ELSE rows[i].joinedAt)
      ]_vars

C12_Witness ==
    /\ last.op = "attach"
    /\ last.code = 200
    /\ \E s \in LiveStudents :
          /\ Len(student[s].groups) = 2
          /\ student[s].groups[1].status = "paused"
          /\ student[s].groups[1].joinedAt >= Epoch
          /\ student[s].groups[1].joinedAt < student[s].groups[2].joinedAt

\* C13: attachStudentToGroup with a membership status other than active is
\* not stopped by the seat checks: on an existing group and student, however
\* the request spells the id of the group, it succeeds whatever the number
\* of active members and the status of the group, and the active members of the group afterwards are those before,
\* without the student.
C13_InactiveAttachIsNotGuarded ==
    [][last'.op = "attach" =>
          \A groupId \in SpelledGroupIds, s \in LiveStudents,
             st \in STUDENT_GROUP_STATUSES \ {"active"} :
              LET g == GroupOf(groupId) IN
              g \in LiveGroups /\ attachStudentToGroup(groupId, s, st, NoDate, FALSE)
              => /\ Succeeded(last')
                 /\ ActiveSeats(g)' = ActiveSeats(g) \ {s}
      ]_vars

\* --------------------------------------------------------- balance reset
\* the constants of the service on the clock of the model: the staleness
\* window, the default gap, its floor of 10 seconds, and the gap configured
\* in STUDENT_BALANCE_RESET_MIN_GAP_MS
THIRTY_DAYS_MS == 4
DEFAULT_MIN_GAP_MS == 3
MinGapFloor == 2
EnvMinGapMs == 1

Max(a, b) == IF a >= b THEN a ELSE b

\* Math.max(Number(process.env...) || DEFAULT_MIN_GAP_MS, 10 * 1000)
minGapMs == Max(IF EnvMinGapMs # 0 THEN EnvMinGapMs ELSE DEFAULT_MIN_GAP_MS, MinGapFloor)

\* variant: the gap is compared in seconds with a clock in milliseconds
Throttled_wrongUnit(force) == ~force /\ now - lastResetRunAt < minGapMs \div 1000

\* variant: the gap is applied to forced calls only
Throttled_forcedOnly(force) == force /\ now - lastResetRunAt < minGapMs

\* !force && now - lastResetRunAt < minGapMs
Throttled(force) == ~force /\ now - lastResetRunAt < minGapMs

\* variant: $lt in place of $lte
Due_lt(acc, at) == acc.balanceResetAt = NoDate \/ acc.balanceResetAt < at - THIRTY_DAYS_MS

\* the filter of Student.updateMany: balanceResetAt absent or <= dueBefore
Due(acc, at) == acc.balanceResetAt = NoDate \/ acc.balanceResetAt <= at - THIRTY_DAYS_MS

\* variant: the running flag is not raised
resetStudentBalancesIfNeeded_noFlag(c, force) ==
    /\ call[c].pc = "idle"
    /\ IF Throttled(force)
       THEN /\ last' = Result("reset", 0, "throttled")
            /\ UNCHANGED <<isResetRunning, lastResetRunAt, call>>
       ELSE IF isResetRunning
       THEN /\ last' = Result("reset", 0, "in_progress")
            /\ UNCHANGED <<isResetRunning, lastResetRunAt, call>>
       ELSE /\ isResetRunning' = isResetRunning
            /\ lastResetRunAt' = now
            /\ call' = [call EXCEPT ![c] = [pc |-> "updating", at |-> now, force |-> force]]
            /\ last' = last
    /\ UNCHANGED <<student, group, served, now, req, account>>

\* variant: a forced call passes the overlap guard as well
ResetDecision_forceAll(force) ==
    IF Throttled(force) THEN "throttled"
    ELSE IF isResetRunning /\ ~force THEN "in_progress"
    ELSE "run"

\* what the two checks of the function decide
ResetDecision(force) ==
    IF Throttled(force) THEN "throttled"
    ELSE IF isResetRunning THEN "in_progress"
    ELSE "run"

\* variant: lastResetRunAt is not written when the sweep starts
ResetEntry_noStamp(c, force) ==
    /\ call[c].pc = "idle"
    /\ IF ResetDecision(force) = "run"
       THEN /\ isResetRunning' = TRUE
            /\ lastResetRunAt' = lastResetRunAt
            /\ call' = [call EXCEPT ![c] = [pc |-> "updating", at |-> now, force |-> force]]
       ELSE UNCHANGED <<isResetRunning, lastResetRunAt, call>>

\* the function up to its await, as its caller c sees it: the two checks and
\* the two assignments run without interruption
ResetEntry(c, force) ==
    /\ call[c].pc = "idle"
    /\ IF ResetDecision(force) = "run"
       THEN /\ isResetRunning' = TRUE
            /\ lastResetRunAt' = now
            /\ call' = [call EXCEPT ![c] = [pc |-> "updating", at |-> now, force |-> force]]
       ELSE UNCHANGED <<isResetRunning, lastResetRunAt, call>>

\* a call of the function by the timer or at startup (force) or by a
\* request that is not modelled further (no force)
resetStudentBalancesIfNeeded(c, force) ==
    /\ ResetEntry(c, force)
    /\ last' = IF ResetDecision(force) = "run" THEN last
               ELSE Result("reset", 0, ResetDecision(force))
    /\ UNCHANGED <<student, group, served, now, req, account>>

\* Student.updateMany: every due account is reset, or the update throws
StudentUpdateMany(c, fail) ==
    /\ call[c].pc = "updating"
    /\ account' = IF fail THEN account
                  ELSE [s \in Students |->
                          IF s \in LiveStudents /\ Due(account[s], call[c].at)
                          THEN [account[s] EXCEPT !.balance = 0,
                                                  !.balanceResetAt = call[c].at]
                          ELSE account[s]]
    /\ call' = [call EXCEPT ![c].pc = IF fail THEN "failed" ELSE "updated"]
    /\ UNCHANGED <<student, group, last, served, now, req, isResetRunning, lastResetRunAt>>

\* variant: the flag is lowered after the await, not in a finally block
ResetFinally_afterAwait(c) ==
    /\ call[c].pc \in {"updated", "failed"}
    /\ isResetRunning' = (call[c].pc = "failed")
    /\ last' = Result("reset", 0, IF call[c].pc = "updated" THEN "swept" ELSE "failed")
    /\ call' = [call EXCEPT ![c] = IdleCall]
    /\ UNCHANGED <<student, group, served, now, req, lastResetRunAt, account>>

\* how the function ends for its caller: the counts, or the error rethrown
ResetOutcome(c) == IF call[c].pc = "updated" THEN "swept" ELSE "failed"

\* the finally block, as the caller c sees it
ResetExit(c) ==
    /\ call[c].pc \in {"updated", "failed"}
    /\ isResetRunning' = FALSE
    /\ call' = [call EXCEPT ![c] = IdleCall]

\* the finally block and the return or rethrow
ResetFinally(c) ==
    /\ ResetExit(c)
    /\ last' = Result("reset", 0, ResetOutcome(c))
    /\ UNCHANGED <<student, group, served, now, req, lastResetRunAt, account>>

\* time passes, by less than the gap or by the gap
Elapse(d) ==
    /\ now + d <= Epoch + MaxTicks * minGapMs
    /\ now' = now + d
    /\ UNCHANGED <<student, group, last, served, attendanceVars, sweepVars>>

\* students without memberships whose balance was last reset long ago,
\* exactly thirty days or just before the process started, or never
InitSweep ==
    /\ student = [s \in Students |-> [NoStudent EXCEPT !.state = "live"]]
    /\ group = [g \in Groups |-> NoGroup]
    /\ last = Result("init", 0, "ok")
    /\ served = 0
    /\ now = Epoch
    /\ req = [p \in Procs |-> IdleRequest]
    /\ isResetRunning = FALSE
    /\ lastResetRunAt = 0
    /\ call = [c \in Calls |-> IdleCall]
    /\ account \in [Students ->
                       {[NoAccount EXCEPT !.balance = 1, !.coinBalance = 1,
                                          !.balanceResetAt = at] :
                           at \in {Epoch - THIRTY_DAYS_MS - 1, Epoch - THIRTY_DAYS_MS,
                                   Epoch - 1, NoDate}}]

\* force is TRUE for the call at startup and the calls of the timer, FALSE
\* for the call a request handler makes before its own work; the timer is
\* not in phase with the requests, so either may come at any time
NextSweep ==
    \/ \E c \in Calls, force \in BOOLEAN : resetStudentBalancesIfNeeded(c, force)
    \/ \E c \in Calls, fail \in BOOLEAN : StudentUpdateMany(c, fail)
    \/ \E c \in Calls : ResetFinally(c)
    \/ \E d \in {1, minGapMs} : Elapse(d)

SpecSweep == InitSweep /\ [][NextSweep]_vars

\* the awaited update settles (the driver resolves or rejects the promise
\* within its timeout) and the finally block runs when it has
SpecSweepFair ==
    /\ SpecSweep
    /\ WF_vars(\E c \in Calls, fail \in BOOLEAN : StudentUpdateMany(c, fail))
    /\ WF_vars(\E c \in Calls : ResetFinally(c))

\* ------------------------------------------ membership requests in flight
\* attachStudentToGroup, detachStudentFromGroup and updateStudent (its groups
\* field) step by step, one step per awaited persistence call.  Request p
\* is about student p, so that requests in flight are about different
\* students; each p serves one request.  No request of this specification
\* writes status or maxStudents of a group.
Requesters == Procs \cap Students

\* groups lists of updateStudent: none, or one id
SingleGroupLists == {<<>>} \cup {<<g>> : g \in Groups}

RaceRequest(pc, op, g, status) ==
    [pc |-> pc, op |-> op, group |-> g, status |-> status,
     seen |-> 0, mirror |-> {}, code |-> 0]

\* the answer of request p
Finish(p, op, g, code, reason) ==
    /\ req' = [req EXCEPT ![p] = [RaceRequest("done", op, g, reason)
                                    EXCEPT !.seen = req[p].seen, !.code = code]]
    /\ last' = Result(op, code, reason)

\* attach: Group.findById and Student.findById, the payload and the check
\* of the group status
AttachLoad(p, g, bodyStatus) ==
    /\ req[p].pc = "idle"
    /\ LET rows == student[p].groups
           membershipIndex == MembershipIndex(rows, g)
           requested == IF bodyStatus = Undefined
                        THEN (IF membershipIndex # 0 THEN rows[membershipIndex].status
                              ELSE "active")
                        ELSE bodyStatus
           status == ParseGroupMemberStatus(requested)
           isActivatingNewSeat ==
               membershipIndex = 0 \/ rows[membershipIndex].status # "active"
       IN IF g \notin LiveGroups THEN Finish(p, "attach", g, 404, "nogroup")
          ELSE IF status = Null THEN Finish(p, "attach", g, 400, "badstatus")
          ELSE IF status = "active" /\ group[g].status \in ClosedGroupStatuses
          THEN Finish(p, "attach", g, 400, "closed")
          ELSE /\ req' = [req EXCEPT ![p] =
                            RaceRequest(IF status = "active" /\ isActivatingNewSeat
                                        THEN "counting" ELSE "saving",
                                        "attach", g, status)]
               /\ last' = last
    /\ UNCHANGED <<student, group, served, now, sweepVars>>

\* attach: countActiveStudentsForGroup and the comparison with maxStudents
AttachCount(p) ==
    /\ req[p].pc = "counting"
    /\ req[p].op = "attach"
    /\ LET g == req[p].group
           activeStudentsCount == CountActiveStudentsForGroup(g, p)
       IN IF activeStudentsCount >= group[g].maxStudents
          THEN Finish(p, "attach", g, 409, "full")
          ELSE /\ req' = [req EXCEPT ![p].pc = "saving", ![p].seen = activeStudentsCount]
               /\ last' = last
    /\ UNCHANGED <<student, group, served, now, sweepVars>>

\* variant: the seats are counted again in the step that saves
AttachSave_recount(p) ==
    /\ req[p].pc = "saving"
    /\ req[p].op = "attach"
    /\ LET g == req[p].group
           rows == student[p].groups
           membershipIndex == MembershipIndex(rows, g)
           guard == SeatGuard(g, p, req[p].status, rows, membershipIndex)
           nextMembership == NextMembership(g, req[p].status, NoDate, rows, membershipIndex)
           nextRows == IF membershipIndex # 0
                       THEN [rows EXCEPT ![membershipIndex] = nextMembership]
                       ELSE Append(rows, nextMembership)
       IN IF guard # "ok"
          THEN /\ Finish(p, "attach", g, 409, "full")
               /\ student' = student
          ELSE /\ student' = [student EXCEPT ![p] = PreValidate([@ EXCEPT !.groups = nextRows])]
               /\ req' = [req EXCEPT ![p].pc = "mirroring",
                                     ![p].code = IF membershipIndex # 0 THEN 200 ELSE 201]
               /\ last' = last
    /\ UNCHANGED <<group, served, now, sweepVars>>

\* attach: the row is pushed or replaced and student.save() writes it
AttachSave(p) ==
    /\ req[p].pc = "saving"
    /\ req[p].op = "attach"
    /\ LET g == req[p].group
           rows == student[p].groups
           membershipIndex == MembershipIndex(rows, g)
           nextMembership == NextMembership(g, req[p].status, NoDate, rows, membershipIndex)
           nextRows == IF membershipIndex # 0
                       THEN [rows EXCEPT ![membershipIndex] = nextMembership]
                       ELSE Append(rows, nextMembership)
       IN /\ student' = [student EXCEPT ![p] = PreValidate([@ EXCEPT !.groups = nextRows])]
          /\ req' = [req EXCEPT ![p].pc = "mirroring",
                                ![p].code = IF membershipIndex # 0 THEN 200 ELSE 201]
          /\ last' = last
    /\ UNCHANGED <<group, served, now, sweepVars>>

\* attach: ensureStudentInGroupList, one pipeline update, and the answer
AttachMirror(p) ==
    /\ req[p].pc = "mirroring"
    /\ req[p].op = "attach"
    /\ group' = EnsureStudentInGroupList(group, req[p].group, p)
    /\ Finish(p, "attach", req[p].group, req[p].code, "ok")
    /\ UNCHANGED <<student, served, now, sweepVars>>

\* detach: the two findById, the filter of the rows and student.save()
DetachSave(p, g) ==
    /\ req[p].pc = "idle"
    /\ LET rows == student[p].groups
           nextRows == FilterSeq(rows, [h \in Groups |-> h # g])
       IN IF g \notin LiveGroups
          THEN Finish(p, "detach", g, 404, "nogroup") /\ student' = student
          ELSE IF Len(nextRows) = Len(rows)
          THEN Finish(p, "detach", g, 404, "notattached") /\ student' = student
          ELSE /\ student' = [student EXCEPT ![p] = PreValidate([@ EXCEPT !.groups = nextRows])]
               /\ req' = [req EXCEPT ![p] = RaceRequest("mirroring", "detach", g, "left")]
               /\ last' = last
    /\ UNCHANGED <<group, served, now, sweepVars>>

\* detach: removeStudentFromGroupList, one pipeline update, and the answer
DetachMirror(p) ==
    /\ req[p].pc = "mirroring"
    /\ req[p].op = "detach"
    /\ group' = RemoveStudentFromGroupList(group, req[p].group, p)
    /\ Finish(p, "detach", req[p].group, 200, "ok")
    /\ UNCHANGED <<student, served, now, sweepVars>>

\* updateStudent: validateGroupAssignments up to its count (Group.find and
\* the check of the statuses)
UpdateValidate(p, groupIds) ==
    /\ req[p].pc = "idle"
    /\ IF groupIds = <<>>
       THEN /\ req' = [req EXCEPT ![p] = RaceRequest("saving", "update", 0, "active")]
            /\ last' = last
       ELSE IF groupIds[1] \notin LiveGroups
       THEN Finish(p, "update", groupIds[1], 400, "missing")
       ELSE IF group[groupIds[1]].status \in ClosedGroupStatuses
       THEN Finish(p, "update", groupIds[1], 400, "closed")
       ELSE /\ req' = [req EXCEPT ![p] =
                         RaceRequest("counting", "update", groupIds[1], "active")]
            /\ last' = last
    /\ UNCHANGED <<student, group, served, now, sweepVars>>

\* updateStudent: countActiveMembershipsByGroupIds and the comparison
UpdateCount(p) ==
    /\ req[p].pc = "counting"
    /\ req[p].op = "update"
    /\ LET g == req[p].group
           currentActiveCount == CountActiveMembershipsByGroupIds({g}, p)[g]
       IN IF currentActiveCount >= group[g].maxStudents
          THEN Finish(p, "update", g, 409, "full")
          ELSE /\ req' = [req EXCEPT ![p].pc = "saving", ![p].seen = currentActiveCount]
               /\ last' = last
    /\ UNCHANGED <<student, group, served, now, sweepVars>>

\* updateStudent: Student.findById, Object.assign and student.save(); the
\* request goes on to the group it has to add to or remove from, if any
UpdateSave(p) ==
    /\ req[p].pc = "saving"
    /\ req[p].op = "update"
    /\ LET nextGroupIds == IF req[p].group = 0 THEN <<>> ELSE <<req[p].group>>
           previous == {student[p].groups[i].group : i \in DOMAIN student[p].groups}
           groupsToAdd == Range(nextGroupIds) \ previous
           groupsToRemove == previous \ Range(nextGroupIds)
           rows == ToStudentGroupMemberships(nextGroupIds)
       IN /\ student' = [student EXCEPT ![p] = PreValidate([@ EXCEPT !.groups = rows])]
          /\ IF groupsToAdd # {}
             THEN /\ req' = [req EXCEPT ![p].pc = "syncing", ![p].status = "add",
                                        ![p].group = CHOOSE g \in groupsToAdd : TRUE]
                  /\ last' = last
             ELSE IF groupsToRemove # {}
             THEN /\ req' = [req EXCEPT ![p].pc = "syncing", ![p].status = "remove",
                                        ![p].group = CHOOSE g \in groupsToRemove : TRUE]
                  /\ last' = last
             ELSE Finish(p, "update", req[p].group, 200, "ok")
    /\ UNCHANGED <<group, served, now, sweepVars>>

\* syncGroupStudentLinks: Group.find(...).select('_id students')
SyncRead(p) ==
    /\ req[p].pc = "syncing"
    /\ req' = [req EXCEPT ![p].pc = "writing", ![p].mirror = group[req[p].group].students]
    /\ UNCHANGED <<student, group, last, served, now, sweepVars>>

\* syncGroupStudentLinks: Group.bulkWrite with $set of the list that was
\* read, with the student pushed or filtered out; the filter { _id } matches
\* no document once the group is deleted
SyncWrite(p) ==
    /\ req[p].pc = "writing"
    /\ group' = IF group[req[p].group].state = "live"
                THEN [group EXCEPT ![req[p].group].students =
                         IF req[p].status = "add" THEN req[p].mirror \cup {p}
                         ELSE req[p].mirror \ {p}]
                ELSE group
    /\ Finish(p, "update", req[p].group, 200, "ok")
    /\ UNCHANGED <<student, served, now, sweepVars>>

\* group 1 with some capacity and some of the students enrolled in it, the
\* mirror in step with them
InitRace ==
    /\ \E enrolled \in SUBSET Students, cap \in 1..MaxCap :
          /\ Cardinality(enrolled) <= cap
          /\ student = [s \in Students |->
                          IF s \in enrolled
                          THEN [state |-> "live", groupAttached |-> TRUE,
                                groups |-> <<[group |-> 1, status |-> "active",
                                              joinedAt |-> PastDate]>>]
                          ELSE [NoStudent EXCEPT !.state = "live"]]
          /\ group = [g \in Groups |->
                        IF g = 1 THEN [OpenGroup EXCEPT !.maxStudents = cap,
                                                        !.students = enrolled]
                        ELSE NoGroup]
    /\ last = Result("init", 0, "ok")
    /\ served = 0
    /\ now = Epoch
    /\ req = [p \in Procs |-> RaceRequest("idle", "none", 0, "none")]
    /\ isResetRunning = FALSE
    /\ lastResetRunAt = 0
    /\ call = [c \in Calls |-> IdleCall]
    /\ account = [s \in Students |-> NoAccount]

NextRace ==
    \/ \E p \in Requesters :
          /\ req[p].pc = "idle"
          /\ \/ \E g \in Groups, st \in MemberStatusInputs : AttachLoad(p, g, st)
             \/ \E g \in Groups : DetachSave(p, g)
             \/ \E ids \in SingleGroupLists : UpdateValidate(p, ids)
    \/ \E p \in Requesters : AttachCount(p)
    \/ \E p \in Requesters : AttachSave(p)
    \/ \E p \in Requesters : AttachMirror(p)
    \/ \E p \in Requesters : DetachMirror(p)
    \/ \E p \in Requesters : UpdateCount(p)
    \/ \E p \in Requesters : UpdateSave(p)
    \/ \E p \in Requesters : SyncRead(p)
    \/ \E p \in Requesters : SyncWrite(p)

SpecRace == InitRace /\ [][NextRace]_vars

\* ------------------------------------------- deleteGroup step by step
\* deleteGroup of group 1 beside attach and updateStudent requests of the
\* students for the same group.  A request that loaded the group before it
\* was deleted goes on with the document it holds, so the deleted document
\* keeps its fields here and only leaves the collection.
Deleter == 0
TargetGroup == 1

\* Group.findByIdAndDelete
DeleteGroupDoc(g) ==
    /\ req[Deleter].pc = "idle"
    /\ IF g \notin LiveGroups
       THEN /\ Finish(Deleter, "deleteGroup", g, 404, "nogroup")
            /\ group' = group
       ELSE /\ group' = [group EXCEPT ![g].state = "deleted"]
            /\ req' = [req EXCEPT ![Deleter] = RaceRequest("finding", "deleteGroup", g, "none")]
            /\ last' = last
    /\ UNCHANGED <<student, served, now, sweepVars>>

\* Student.find({ 'groups.group': groupId }).select('_id')
DeleteFind ==
    /\ req[Deleter].pc = "finding"
    /\ LET affectedStudents == Holders(req[Deleter].group)
       IN IF affectedStudents = {}
          THEN Finish(Deleter, "deleteGroup", req[Deleter].group, 200, "ok")
          ELSE /\ req' = [req EXCEPT ![Deleter].pc = "pulling",
                                     ![Deleter].mirror = affectedStudents]
               /\ last' = last
    /\ UNCHANGED <<student, group, served, now, sweepVars>>

\* the first Student.updateMany: $pull of the rows of the group
DeletePull ==
    /\ req[Deleter].pc = "pulling"
    /\ student' = [s \in Students |->
                     IF s \in req[Deleter].mirror /\ student[s].state = "live"
                     THEN CascadePull(student[s], req[Deleter].group)
                     ELSE student[s]]
    /\ req' = [req EXCEPT ![Deleter].pc = "flagging"]
    /\ UNCHANGED <<group, last, served, now, sweepVars>>

\* the second Student.updateMany: groupAttached from the rows, and the answer
DeleteFlag ==
    /\ req[Deleter].pc = "flagging"
    /\ student' = [s \in Students |->
                     IF s \in req[Deleter].mirror /\ student[s].state = "live"
                     THEN CascadeFlag(student[s])
                     ELSE student[s]]
    /\ Finish(Deleter, "deleteGroup", req[Deleter].group, 200, "ok")
    /\ UNCHANGED <<group, served, now, sweepVars>>

\* the target group with some capacity and some of the students enrolled
InitCascade ==
    /\ \E enrolled \in SUBSET Students, cap \in 1..MaxCap :
          /\ Cardinality(enrolled) <= cap
          /\ student = [s \in Students |->
                          IF s \in enrolled
                          THEN [state |-> "live", groupAttached |-> TRUE,
                                groups |-> <<[group |-> TargetGroup, status |-> "active",
                                              joinedAt |-> PastDate]>>]
                          ELSE [NoStudent EXCEPT !.state = "live"]]
          /\ group = [g \in Groups |->
                        IF g = TargetGroup
                        THEN [OpenGroup EXCEPT !.maxStudents = cap, !.students = enrolled]
                        ELSE NoGroup]
    /\ last = Result("init", 0, "ok")
    /\ served = 0
    /\ now = Epoch
    /\ req = [p \in Procs \cup {Deleter} |-> RaceRequest("idle", "none", 0, "none")]
    /\ isResetRunning = FALSE
    /\ lastResetRunAt = 0
    /\ call = [c \in Calls |-> IdleCall]
    /\ account = [s \in Students |-> NoAccount]

NextCascade ==
    \/ DeleteGroupDoc(TargetGroup)
    \/ DeleteFind
    \/ DeletePull
    \/ DeleteFlag
    \/ \E p \in Requesters :
          /\ req[p].pc = "idle"
          /\ \/ \E st \in MemberStatusInputs : AttachLoad(p, TargetGroup, st)
             \/ \E ids \in {<<>>, <<TargetGroup>>} : UpdateValidate(p, ids)
    \/ \E p \in Requesters : AttachCount(p)
    \/ \E p \in Requesters : AttachSave(p)
    \/ \E p \in Requesters : AttachMirror(p)
    \/ \E p \in Requesters : UpdateCount(p)
    \/ \E p \in Requesters : UpdateSave(p)
    \/ \E p \in Requesters : SyncRead(p)
    \/ \E p \in Requesters : SyncWrite(p)

SpecCascade == InitCascade /\ [][NextCascade]_vars

\* ------------------------------------------- requests behind the sweep
\* rewardStudentCoins and updateStudent (its balance and coinBalance
\* fields), each behind its opportunistic call of the sweep, served one at
\* a time as request 1 while the timer makes its forced calls.  Student id
\* 0 is an id that is not an ObjectId; NoNumber is a field the body lacks.
TimerCalls == Calls \ {1}
StudentIdInputs == {0, 1, NumStudents}
AmountInputs == {0, 1}
\* bodies of updateStudent: a balance, a bad balance, a bad coinBalance, a
\* coinBalance, both
UpdateBodies ==
    {[balance |-> 2, coinBalance |-> NoNumber],
     [balance |-> -2, coinBalance |-> NoNumber],
     [balance |-> NoNumber, coinBalance |-> -2],
     [balance |-> NoNumber, coinBalance |-> 0],
     [balance |-> 2, coinBalance |-> 1]}

\* variant: no catch around the awaited call
RunBalanceResetSafely_rethrow(trigger) ==
    IF trigger = "failed" THEN "thrown" ELSE "returned"

\* try { await resetStudentBalancesIfNeeded() } catch (error) { log }
RunBalanceResetSafely(trigger) ==
    IF trigger = "failed" THEN "caught" ELSE "returned"

\* res.status(code).json(...): the handler of p is done
Respond(p, result) ==
    /\ req' = [req EXCEPT ![p] = IdleRequest]
    /\ last' = result

\* a handler from its start to the first await inside the sweep, or past a
\* skipped sweep
ReceiveRequest(p, op, studentId, amount, balance) ==
    /\ req[p].pc = "idle"
    /\ served < MaxAccountRequests
    /\ served' = served + 1
    /\ ResetEntry(p, FALSE)
    /\ req' = [req EXCEPT ![p] =
                 [pc |-> IF ResetDecision(FALSE) = "run" THEN "sweeping" ELSE "body",
                  op |-> op, student |-> studentId, amount |-> amount,
                  balance |-> balance, trigger |-> ResetDecision(FALSE), coin |-> 0]]
    /\ UNCHANGED <<student, group, last, now, account>>

\* the sweep of handler p ends and runBalanceResetSafely returns to it
ResumeRequest(p) ==
    /\ req[p].pc = "sweeping"
    /\ ResetExit(p)
    /\ req' = [req EXCEPT ![p].pc = "body", ![p].trigger = ResetOutcome(p)]
    /\ UNCHANGED <<student, group, last, served, now, lastResetRunAt, account>>

\* rewardStudentCoins after the sweep, up to Student.findById
rewardStudentCoins(p, trigger) ==
    /\ req[p].pc = "body"
    /\ req[p].op = "reward"
    /\ LET r == req[p]
       IN IF RunBalanceResetSafely(trigger) = "thrown"
          THEN Respond(p, Result("reward", 500, "error"))
          ELSE IF r.student = 0
          THEN Respond(p, Result("reward", 400, "id"))
          ELSE IF r.amount <= 0
          THEN Respond(p, Result("reward", 400, "amount"))
          ELSE IF r.student \notin LiveStudents
          THEN Respond(p, Result("reward", 404, "nostudent"))
          ELSE /\ req' = [req EXCEPT ![p].pc = "loaded",
                                     ![p].coin = account[r.student].coinBalance]
               /\ last' = last
    /\ UNCHANGED <<student, group, served, now, sweepVars>>

\* student.coinBalance += amount; await student.save(): the loaded value
\* plus the amount is written with $set
rewardSave(p, fail) ==
    /\ req[p].pc = "loaded"
    /\ account' = IF fail THEN account
                  ELSE [account EXCEPT ![req[p].student].coinBalance =
                                            req[p].coin + req[p].amount]
    /\ Respond(p, IF fail THEN Result("reward", 500, "save") ELSE Result("reward", 200, "ok"))
    /\ UNCHANGED <<student, group, served, now, isResetRunning, lastResetRunAt, call>>

\* updateStudent after the sweep, for a body with balance and coinBalance
\* and no groups: the checks, Object.assign and student.save()
updateStudentAccount(p, trigger) ==
    /\ req[p].pc = "body"
    /\ req[p].op = "update"
    /\ LET r == req[p]
           ok == /\ RunBalanceResetSafely(trigger) # "thrown"
                 /\ r.student \in LiveStudents
                 /\ r.balance = NoNumber \/ r.balance >= 0
                 /\ r.amount = NoNumber \/ r.amount >= 0
       IN /\ Respond(p,
                IF RunBalanceResetSafely(trigger) = "thrown"
                THEN Result("update", 500, "error")
                ELSE IF r.student = 0
                THEN Result("update", 400, "id")
                ELSE IF r.balance # NoNumber /\ r.balance < 0
                THEN Result("update", 400, "balance")
                ELSE IF r.amount # NoNumber /\ r.amount < 0
                THEN Result("update", 400, "coinBalance")
                ELSE IF r.student \notin LiveStudents
                THEN Result("update", 404, "nostudent")
                ELSE Result("update", 200, "ok"))
          /\ account' =
                IF ~ok THEN account
                ELSE [account EXCEPT
                        ![r.student].balance =
                            IF r.balance = NoNumber THEN @ ELSE r.balance,
                        ![r.student].coinBalance =
                            IF r.amount = NoNumber THEN @ ELSE r.amount]
    /\ UNCHANGED <<student, group, served, now, isResetRunning, lastResetRunAt, call>>

\* one student, whose balance was last reset long ago or just before the
\* process started; no sweep has run yet
InitCoins ==
    /\ student = [s \in Students |->
                    IF s = 1 THEN [NoStudent EXCEPT !.state = "live"] ELSE NoStudent]
    /\ group = [g \in Groups |-> NoGroup]
    /\ last = Result("init", 0, "ok")
    /\ served = 0
    /\ now = Epoch
    /\ req = [p \in Procs |-> IdleRequest]
    /\ isResetRunning = FALSE
    /\ lastResetRunAt = 0
    /\ call = [c \in Calls |-> IdleCall]
    /\ \E at \in {Epoch - THIRTY_DAYS_MS - 1, Epoch - 1} :
          account = [s \in Students |->
                       IF s = 1 THEN [NoAccount EXCEPT !.balance = 1, !.balanceResetAt = at]
                       ELSE NoAccount]

NextCoins ==
    \/ /\ req[1].pc = "idle"
       /\ \/ \E s \in StudentIdInputs, a \in AmountInputs :
                ReceiveRequest(1, "reward", s, a, NoNumber)
          \/ \E s \in StudentIdInputs, body \in UpdateBodies :
                ReceiveRequest(1, "update", s, body.coinBalance, body.balance)
    \/ \E fail \in BOOLEAN : req[1].pc = "sweeping" /\ StudentUpdateMany(1, fail)
    \/ ResumeRequest(1)
    \/ rewardStudentCoins(1, req[1].trigger)
    \/ \E fail \in BOOLEAN : rewardSave(1, fail)
    \/ updateStudentAccount(1, req[1].trigger)
    \/ \E c \in TimerCalls : resetStudentBalancesIfNeeded(c, TRUE)
    \/ \E c \in TimerCalls, fail \in BOOLEAN : StudentUpdateMany(c, fail)
    \/ \E c \in TimerCalls : ResetFinally(c)
    \/ Elapse(minGapMs)

SpecCoins == InitCoins /\ [][NextCoins]_vars

\* ---------------------------------------------------- auth.middleware.js
\* users of the collection by id, as the stub of the smoke test answers
\* User.findById: a superadmin, an admin, a teacher, and nobody else
NoUser == "nouser"
UserIds == 1..4
Users == [id \in UserIds |->
             CASE id = 1 -> "superadmin"
               [] id = 2 -> "admin"
               [] id = 3 -> "teacher"
               [] OTHER -> NoUser]

\* a bearer token: signed with the access secret or not, expired or not,
\* and the id of its payload
Tokens == [signed : BOOLEAN, expired : BOOLEAN, id : UserIds]
\* no token: what extractBearerToken answers with null
NoToken == [signed |-> FALSE, expired |-> FALSE, id |-> 0]
NoHeader == [scheme |-> "none", token |-> NoToken]
AuthorizationInputs ==
    {NoHeader} \cup [scheme : {"Bearer", "bearer", "Token"}, token : Tokens]

\* req.body.role as the client wrote it
NoRole == "norole"
RoleInputs ==
    {NoRole, "teacher", "supporteacher", "headteacher", "admin", "superadmin",
     " Admin ", "SuperAdmin", "student"}

\* req.file: no upload, an upload saved on disk, or an upload whose file is
\* no longer on disk
FileInputs == {"none", "saved", "vanished"}

\* /^Bearer\s+(.+)$/i
ExtractBearerToken(authorization) ==
    IF authorization.scheme \in {"Bearer", "bearer"} THEN authorization.token ELSE NoToken

\* jwt.verify: TRUE when it returns the payload, FALSE when it throws
VerifyAccessToken(token) == token.signed /\ ~token.expired

\* String(role || 'teacher').trim().toLowerCase()
RequestedRole(role) ==
    CASE role = NoRole -> "teacher"
      [] role = " Admin " -> "admin"
      [] role = "SuperAdmin" -> "superadmin"
      [] OTHER -> role

\* variant: an admin may register employees as well
canCreateRoleViaRegister_admins(actorRole, targetRole) ==
    IF targetRole = "superadmin" THEN FALSE
    ELSE /\ actorRole \in {"superadmin", "admin"}
         /\ targetRole \in {"teacher", "supporteacher", "headteacher", "admin"}

canCreateRoleViaRegister(actorRole, targetRole) ==
    IF targetRole = "superadmin" THEN FALSE
    ELSE /\ actorRole = "superadmin"
         /\ targetRole \in {"teacher", "supporteacher", "headteacher", "admin"}

\* a register request: where the middleware is, what the client sent, whether
\* the uploaded file is on disk, req.user, and what was answered
IdleRegister ==
    [pc |-> "idle", authorization |-> NoHeader, role |-> NoRole, file |-> "none",
     onDisk |-> FALSE, user |-> NoUser, statusCode |-> 0, nextCalled |-> FALSE]

\* removeUploadedFileIfAny, then res.status(code).json(...)
RejectRegister(r, code) ==
    [r EXCEPT !.pc = "done", !.statusCode = code, !.onDisk = FALSE]

\* the synchronous part: the token is extracted and the promise chain set up
requireRegisterPermission(p, authorization, role, file) ==
    LET r == [IdleRegister EXCEPT !.authorization = authorization, !.role = role,
                                  !.file = file, !.onDisk = (file = "saved")]
    IN /\ req[p].pc \in {"idle", "done"}
       /\ req' = [req EXCEPT ![p] =
                    IF ExtractBearerToken(authorization) = NoToken
                    THEN RejectRegister(r, 401)
                    ELSE [r EXCEPT !.pc = "then"]]
       /\ UNCHANGED <<student, group, last, served, now, sweepVars>>

\* the then callback up to the await; a throw of verifyAccessToken goes to
\* the catch callback
RegisterVerify(p) ==
    /\ req[p].pc = "then"
    /\ req' = [req EXCEPT ![p] =
                 IF VerifyAccessToken(ExtractBearerToken(req[p].authorization))
                 THEN [req[p] EXCEPT !.pc = "finding"]
                 ELSE RejectRegister(req[p], 401)]
    /\ UNCHANGED <<student, group, last, served, now, sweepVars>>

\* the then callback after User.findById answered
RegisterDecide(p) ==
    LET user == Users[ExtractBearerToken(req[p].authorization).id] IN
    /\ req[p].pc = "finding"
    /\ req' = [req EXCEPT ![p] =
                 IF user = NoUser
                 THEN RejectRegister(req[p], 401)
                 ELSE IF ~canCreateRoleViaRegister(user, RequestedRole(req[p].role))
                 THEN RejectRegister([req[p] EXCEPT !.user = user], 403)
                 ELSE [req[p] EXCEPT !.pc = "done", !.user = user, !.nextCalled = TRUE]]
    /\ UNCHANGED <<student, group, last, served, now, sweepVars>>

InitAuth ==
    /\ student = [s \in Students |-> NoStudent]
    /\ group = [g \in Groups |-> NoGroup]
    /\ last = Result("init", 0, "ok")
    /\ served = 0
    /\ now = Epoch
    /\ req = [p \in Procs |-> IdleRegister]
    /\ isResetRunning = FALSE
    /\ lastResetRunAt = 0
    /\ call = [c \in Calls |-> IdleCall]
    /\ account = [s \in Students |-> NoAccount]

\* register requests are served one after the other as request 1
NextAuth ==
    \/ \E authorization \in AuthorizationInputs, role \in RoleInputs, file \in FileInputs :
          requireRegisterPermission(1, authorization, role, file)
    \/ RegisterVerify(1)
    \/ RegisterDecide(1)

SpecAuth == InitAuth /\ [][NextAuth]_vars

\* entries of a log for student s on the calendar day dateKey
EntriesOn(log, s, dateKey) ==
    {i \in DOMAIN log : log[i].student = s /\ ToDateKey(log[i].date) = dateKey}

\* the step of SpecAttendance in which the handler answers request 1
Answered == req[1].pc = "received" /\ req'[1].pc = "idle"

\* C14: a submission for a group, a day and distinct active members that
\* already have one entry each on that day (an earlier submission for the
\* same students and day) leaves exactly one entry per student and day,
\* carrying the status and note of this submission; entries of other
\* students or days are as before.
C14_SecondSubmissionWins ==
    [][LET r == req[1]
           log == group[r.group].attendance
           after == group'[r.group].attendance
           dateKey == ToDateKey(r.date)
           named == {r.records[k].student : k \in DOMAIN r.records}
       IN ( /\ req[1].pc = "received"
            /\ upsertGroupAttendance(1, FALSE)
            /\ r.date # BadDate
            /\ r.group \in LiveGroups
            /\ r.records # <<>>
            /\ Cardinality(named) = Len(r.records)
            /\ named \subseteq ActiveSeats(r.group)
            /\ \A s \in named : Cardinality(EntriesOn(log, s, dateKey)) = 1 )
          => /\ Len(after) = Len(log)
             /\ \A k \in DOMAIN r.records :
                   /\ Cardinality(EntriesOn(after, r.records[k].student, dateKey)) = 1
                   /\ \A i \in EntriesOn(after, r.records[k].student, dateKey) :
                         /\ after[i].status = r.records[k].status
                         /\ after[i].note = r.records[k].note
             /\ \A i \in DOMAIN log :
                   (log[i].student \notin named \/ ToDateKey(log[i].date) # dateKey)
                   => after[i] = log[i]
      ]_vars

\* C15: also with requests interleaved, the attendance log of a group holds
\* at most one entry per student and calendar day.
C15_OneEntryPerStudentAndDay ==
    \A g \in Groups : AttendanceValidator(group[g].attendance)

\* C16: a request naming a student who is not, at that time, an active
\* member of the group is rejected and changes no attendance log.
C16_OnlyActiveMembersAreMarked ==
    [][( /\ Answered
         /\ \E k \in DOMAIN req[1].records :
               req[1].records[k].student \notin ActiveSeats(req[1].group) )
       => /\ last'.op = "attendance"
          /\ last'.code \in {400, 404}
          /\ group' = group
      ]_vars

C16_Witness ==
    /\ last.op = "attendance"
    /\ last.reason = "notactive"
    /\ \E s \in LiveStudents : student[s].groups # <<>> /\ ~student[s].groupAttached
    /\ group[1].attendance # <<>>

C18_BatchAppliedAsAWhole ==
    [][Answered
       => \/ /\ ~Succeeded(last')
             /\ group' = group
          \/ /\ Succeeded(last')
             /\ \A k \in DOMAIN req[1].records :
                   \E i \in DOMAIN group'[req[1].group].attendance :
                      LET entry == group'[req[1].group].attendance[i]
                      IN /\ entry.student = req[1].records[k].student
                         /\ entry.date = req[1].date
                         /\ entry.status = req[1].records[k].status
                         /\ entry.note = req[1].records[k].note
      ]_vars

C18_Witness ==
    /\ last.op = "attendance"
    /\ last.code = 500
    /\ last.reason = "save"
    /\ \E i, j \in DOMAIN group[1].attendance :
          /\ i # j
          /\ group[1].attendance[i].date = group[1].attendance[j].date

\* calls that passed both checks and have not yet left the finally block
Sweeping == {c \in Calls : call[c].pc # "idle"}

\* C19: at most one sweep runs at a time, whatever the interleaving of
\* forced and opportunistic calls; the flag is up exactly while it runs; a
\* call made while a sweep runs is skipped (in_progress unless throttled)
\* and writes nothing.
C19_OneSweepAtATime ==
    [][/\ Cardinality(Sweeping') <= 1
       /\ isResetRunning' <=> Sweeping' # {}
       /\ \A c \in Calls, force \in BOOLEAN :
             (isResetRunning /\ resetStudentBalancesIfNeeded(c, force))
             => /\ last'.reason = (IF Throttled(force) THEN "throttled" ELSE "in_progress")
                /\ Sweeping' = Sweeping
                /\ account' = account
                /\ lastResetRunAt' = lastResetRunAt
      ]_vars

C19_Witness ==
    /\ last.op = "reset"
    /\ last.reason = "in_progress"
    /\ isResetRunning
    /\ Cardinality(Sweeping) = 1

\* C20: a non-forced call made less than minGap after the start of the
\* previous sweep answers skipped/throttled and changes neither an account
\* nor the running flag nor lastResetRunAt.
C20_ThrottledCallChangesNothing ==
    [][\A c \in Calls :
          ( /\ now - lastResetRunAt < minGapMs
            /\ resetStudentBalancesIfNeeded(c, FALSE) )
          => /\ last'.op = "reset"
             /\ last'.reason = "throttled"
             /\ account' = account
             /\ student' = student
             /\ isResetRunning' = isResetRunning
             /\ lastResetRunAt' = lastResetRunAt
             /\ call' = call
      ]_vars

C20_Witness ==
    /\ last.op = "reset"
    /\ last.reason = "throttled"
    /\ ~isResetRunning
    /\ now - lastResetRunAt < minGapMs
    /\ \E s \in Students : account[s].balance = 0

\* the step in which call c passes both checks and starts a sweep
SweepStarts(c) == call[c].pc = "idle" /\ call'[c].pc = "updating"

\* C21 (as stated): every sweep starts at least minGap after the start of
\* the sweep before it, whatever triggered it.
C21_SweepsStartMinGapApart ==
    [][\A c \in Calls :
          SweepStarts(c) => now - lastResetRunAt >= minGapMs
      ]_vars

\* C21 (amended): a sweep started by a non-forced call (one made by a
\* request handler) starts at least minGap after the start of the sweep
\* before it; the forced calls of startup and timer are exempt.
C21_OpportunisticSweepsMinGapApart ==
    [][\A c \in Calls :
          (SweepStarts(c) /\ ~call'[c].force)
          => /\ now - lastResetRunAt >= minGapMs
             /\ lastResetRunAt' = now
      ]_vars

C21_Witness ==
    \E c \in Calls :
       /\ call[c].pc = "updating"
       /\ ~call[c].force
       /\ lastResetRunAt = call[c].at
       /\ \E s \in Students :
             /\ account[s].balanceResetAt >= Epoch
             /\ account[s].balanceResetAt + minGapMs <= call[c].at

\* the step in which the bulk update of call c is applied
SweepApplied(c) == call[c].pc = "updating" /\ call'[c].pc = "updated"

\* the account of a student after a sweep started at time at
Swept(acc, at) == [acc EXCEPT !.balance = 0, !.balanceResetAt = at]

\* C22 (as stated): a sweep started at time at resets exactly the students
\* whose balanceResetAt is absent or older than thirty days before at, and
\* changes nothing else.
C22_SweepResetsOlderThanWindow ==
    [][\A c \in Calls :
          SweepApplied(c)
          => /\ \A s \in LiveStudents :
                   account'[s] =
                      IF \/ account[s].balanceResetAt = NoDate
                         \/ account[s].balanceResetAt < call[c].at - THIRTY_DAYS_MS
                      THEN Swept(account[s], call[c].at)
                      ELSE account[s]
             /\ student' = student
             /\ group' = group
      ]_vars

\* C22 (amended): a sweep started at time at sets balance = 0 and
\* balanceResetAt = at for exactly the students whose balanceResetAt is
\* absent or not later than thirty days before at, leaves the balance and
\* balanceResetAt of every other student and the coinBalance of every
\* student as they were, and changes no membership, groupAttached or group.
C22_SweepResetsWindowInclusive ==
    [][\A c \in Calls :
          SweepApplied(c)
          => /\ \A s \in LiveStudents :
                   account'[s] =
                      IF \/ account[s].balanceResetAt = NoDate
                         \/ account[s].balanceResetAt <= call[c].at - THIRTY_DAYS_MS
                      THEN Swept(account[s], call[c].at)
                      ELSE account[s]
             /\ \A s \in Students : account'[s].coinBalance = account[s].coinBalance
             /\ student' = student
             /\ group' = group
      ]_vars

C22_Witness ==
    \E c \in Calls, s, t \in LiveStudents :
       /\ call[c].pc = "updated"
       /\ account[s].balance = 0
       /\ account[s].balanceResetAt = call[c].at
       /\ account[s].coinBalance = 1
       /\ account[t].balance = 1
       /\ account[t].balanceResetAt = Epoch - 1

\* C23: a call that has started a sweep finishes, whether the update
\* succeeds or throws, and when it has the running flag is down, so that
\* the scheduler accepts a new sweep.
C23_SweepReturnsToIdle ==
    \A c \in Calls :
       (call[c].pc = "updating") ~> (call[c].pc = "idle" /\ ~isResetRunning)

C23_Witness ==
    /\ last.op = "reset"
    /\ last.reason = "failed"
    /\ isResetRunning
    /\ \E c \in Calls : call[c].pc = "updating" /\ call[c].at = lastResetRunAt

\* C24: a request whose opportunistic sweep failed goes on exactly as one
\* whose sweep was skipped: same checks, same answer, same writes.
C24_SweepFailureIsSwallowed ==
    [][( /\ req[1].pc = "body"
         /\ req[1].trigger = "failed"
         /\ req'[1] # req[1] )
       => \/ rewardStudentCoins(1, "throttled")
          \/ updateStudentAccount(1, "throttled")
      ]_vars

C24_Witness ==
    /\ req[1].pc = "loaded"
    /\ req[1].trigger = "failed"
    /\ account[1].balance = 1
    /\ account[1].balanceResetAt < Epoch - THIRTY_DAYS_MS

\* C27: the coinBalance of a student is never negative and no step lowers
\* it; a reward that is saved adds exactly its amount to it and changes
\* nothing else of the student.
C27_CoinBalanceOnlyGrows ==
    [][/\ \A s \in Students :
             /\ account'[s].coinBalance >= 0
             /\ account'[s].coinBalance >= account[s].coinBalance
       /\ (req[1].pc = "loaded" /\ rewardSave(1, FALSE))
          => /\ account' = [account EXCEPT ![req[1].student].coinBalance =
                                               @ + req[1].amount]
             /\ student' = student
      ]_vars

\* C25: the save of an attach does not look at the seats again: a request
\* that counted a free seat writes its active row whatever was saved since
\* (so two requests that both counted the last free seat both succeed).
C25_SaveDoesNotRecount ==
    [][\A p \in Requesters :
          ( /\ req[p].pc = "saving"
            /\ req[p].op = "attach"
            /\ req'[p] # req[p] )
          => /\ req'[p].pc = "mirroring"
             /\ HasActiveRow(student'[p].groups, req[p].group) <=> req[p].status = "active"
      ]_vars

\* two requests for different students have both counted the last free
\* seat before either saved, both were answered 201, and the group holds
\* more active memberships than maxStudents
C25_Witness ==
    \E p, q \in Requesters :
       /\ p # q
       /\ \A r \in {p, q} :
             /\ req[r].pc = "done"
             /\ req[r].op = "attach"
             /\ req[r].code = 201
             /\ req[r].group = 1
             /\ req[r].seen = group[1].maxStudents - 1
       /\ Cardinality(ActiveSeats(1)) > group[1].maxStudents

\* C26: when every request has been answered, the students mirror of each
\* group holds exactly the students with a row for it: no update of the
\* mirror for one student undoes the update for another.
C26_MirrorUpdatesAllTakeEffect ==
    (\A p \in Requesters : req[p].pc \in {"idle", "done"})
    => \A g \in LiveGroups : group[g].students = Holders(g)


\* an id of a request that references no existing group
ReferencesNoGroup(groupId) == GroupOf(groupId) \notin LiveGroups

\* the list holds the id of one group twice
SameIdTwice(groupIds) ==
    \E i, j \in DOMAIN groupIds : i # j /\ GroupOf(groupIds[i]) = GroupOf(groupIds[j])

\* createStudent or updateStudent served with the group list `input`
ListRequest(input) ==
    \/ createStudent(input, "none")
    \/ \E s \in Students : updateStudent(s, input, "none")

\* C28: createStudent and updateStudent given a group list answer 400 and
\* write nothing when an id of the list references no existing group or the
\* list holds the same id twice, and the not-found answer names exactly the
\* ids of the list that reference no existing group.
C28_BadGroupListRejectedNamingMissing ==
    [][\A input \in SpelledInputs :
          /\ ListRequest(input)
          /\ \/ \E i \in DOMAIN input.ids : ReferencesNoGroup(input.ids[i])
             \/ SameIdTwice(input.ids)
          => /\ last'.code = 400
             /\ UNCHANGED <<student, group>>
             /\ last'.reason = "missing"
                  => ValidateGroupAssignments(input.ids, 0).missing =
                        SelectSeq(input.ids, ReferencesNoGroup)]_vars

\* the request carries an access token that verifies
CarriesValidToken(r) ==
    /\ r.authorization.scheme \in {"Bearer", "bearer"}
    /\ r.authorization.token.signed
    /\ ~r.authorization.token.expired

\* the role of the user the token was issued to, NoUser when there is none
ActorRole(r) == Users[r.authorization.token.id]

\* C29: a register request that requireRegisterPermission has finished with
\* was let through (next called, no response written) exactly when it carried
\* a valid access token of an existing user with role superadmin and asked
\* for one of the roles teacher, supporteacher, headteacher, admin; without a
\* token it was answered 401; with a valid token of an existing user of
\* another role, or asking for superadmin, it was answered 403; and whenever
\* it was rejected its uploaded file is no longer on disk.
C29_RegisterOnlyBySuperadmin ==
    \A p \in Procs :
        LET r == req[p] IN
        r.pc = "done" =>
            /\ r.nextCalled <=>
                  /\ CarriesValidToken(r)
                  /\ ActorRole(r) = "superadmin"
                  /\ RequestedRole(r.role) \in {"teacher", "supporteacher", "headteacher", "admin"}
            /\ r.nextCalled => r.statusCode = 0
            /\ r.authorization.scheme \notin {"Bearer", "bearer"} => r.statusCode = 401
            /\ /\ CarriesValidToken(r)
               /\ ActorRole(r) # NoUser
               /\ ActorRole(r) # "superadmin" \/ RequestedRole(r.role) = "superadmin"
               => r.statusCode = 403
            /\ ~r.nextCalled => r.statusCode \in {401, 403} /\ ~r.onDisk

\* an admin asking for a teacher account with an avatar was answered 403 and
\* the avatar is gone
C29_Witness ==
    /\ req[1].pc = "done"
    /\ req[1].file = "saved"
    /\ CarriesValidToken(req[1])
    /\ ActorRole(req[1]) = "admin"
    /\ RequestedRole(req[1].role) = "teacher"
    /\ req[1].statusCode = 403
    /\ ~req[1].onDisk

\* C30 (as stated): lastResetRunAt is the start time of the sweep while it
\* runs, and once a sweep has failed a non-forced call made less than minGap
\* after that start is throttled while the first non-forced call made minGap
\* or more after it starts a new sweep.
C30_FirstCallAfterGapRetries ==
    [][/\ \A c \in Calls : call[c].pc # "idle" => lastResetRunAt = call[c].at
       /\ last.reason = "failed" /\ (\A c \in Calls : call[c].pc # "idle" => call[c].force)
          => \A c \in Calls :
                resetStudentBalancesIfNeeded(c, FALSE)
                => /\ ~isResetRunning /\ now - lastResetRunAt < minGapMs
                      => last'.reason = "throttled" /\ call' = call
                   /\ now - lastResetRunAt >= minGapMs => SweepStarts(c)
      ]_vars

\* C30 (amended): lastResetRunAt is the start time of the sweep while it
\* runs and a failure leaves it there; whenever no sweep is running, a
\* non-forced call made less than minGap after the start of the latest sweep
\* is throttled and starts nothing, and a non-forced call made minGap or more
\* after it starts a new sweep and stamps its own start.
C30_RetryWaitsForGapSinceLatestSweep ==
    [][/\ \A c \in Calls : call[c].pc # "idle" => lastResetRunAt = call[c].at
       /\ \A c \in Calls :
             ResetFinally(c) /\ call[c].pc = "failed"
             => /\ last'.reason = "failed"
                /\ lastResetRunAt' = call[c].at
                /\ ~isResetRunning'
       /\ ~isResetRunning
          => \A c \in Calls :
                resetStudentBalancesIfNeeded(c, FALSE)
                => IF now - lastResetRunAt < minGapMs
                   THEN last'.reason = "throttled" /\ call' = call
                                                   /\ lastResetRunAt' = lastResetRunAt
                   ELSE SweepStarts(c) /\ lastResetRunAt' = now
      ]_vars

\* a sweep has failed and a non-forced call made after the gap is sweeping
C30_Witness ==
    /\ last.reason = "failed"
    /\ \E c \in Calls :
          /\ call[c].pc = "updating"
          /\ ~call[c].force
          /\ call[c].at = lastResetRunAt
          /\ call[c].at >= Epoch + minGapMs

\* C31: a forced call made while a sweep is running answers
\* skipped/in_progress, writes no account and leaves lastResetRunAt and the
\* running sweep alone; made while no sweep is running it starts a sweep
\* however little time has passed and stamps lastResetRunAt with its own
\* start, and a non-forced call made less than minGap after that stamp is
\* throttled.
C31_ForcedCallBypassesOnlyThrottle ==
    [][\A c \in Calls :
          /\ resetStudentBalancesIfNeeded(c, TRUE)
             => IF isResetRunning
                THEN /\ last'.reason = "in_progress"
                     /\ account' = account
                     /\ lastResetRunAt' = lastResetRunAt
                     /\ call' = call
                     /\ isResetRunning'
                ELSE /\ SweepStarts(c)
                     /\ call'[c].force
                     /\ call'[c].at = now
                     /\ lastResetRunAt' = now
                     /\ isResetRunning'
          /\ ( /\ resetStudentBalancesIfNeeded(c, FALSE)
               /\ \E f \in Calls : call[f].pc # "idle" /\ call[f].force
               /\ now - lastResetRunAt < minGapMs )
             => last'.reason = "throttled" /\ call' = call
      ]_vars

\* a non-forced call was throttled against the start of a forced sweep that
\* is still running
C31_Witness ==
    /\ last.reason = "throttled"
    /\ isResetRunning
    /\ \E c \in Calls :
          /\ call[c].pc = "updating"
          /\ call[c].force
          /\ call[c].at = lastResetRunAt
          /\ now - call[c].at < minGapMs

\* the student holds an active membership in every group of the list
KeepsActiveSeats(s, ids) ==
    /\ ids # <<>>
    /\ \A i \in DOMAIN ids :
          /\ ids[i] \in LiveGroups
          /\ HasActiveRow(student[s].groups, ids[i])

\* C32: a request that keeps active a membership the student already holds
\* as active (updateStudent listing only groups the student is active in, or
\* an attach with status active to such a group) is not rejected for a
\* closed or full group, whatever the seat count, maxStudents and status of
\* the group are.
C32_KeptSeatIsNotGuarded ==
    [][\A s \in LiveStudents :
          /\ \A input \in GroupsInputs, fail \in SyncFailures :
                ( /\ last'.op = "updateStudent"
                  /\ input.given
                  /\ KeepsActiveSeats(s, input.ids)
                  /\ updateStudent(s, input, fail) )
                => last'.reason \notin {"closed", "full"}
          /\ \A g \in LiveGroups, st \in {Undefined, "active"}, f \in BOOLEAN :
                ( /\ last'.op = "attach"
                  /\ HasActiveRow(student[s].groups, g)
                  /\ attachStudentToGroup(g, s, st, NoDate, f) )
                => last'.reason \notin {"closed", "full"}
      ]_vars

RowsFor(rows, g) == Cardinality({i \in DOMAIN rows : rows[i].group = g})

\* C34: an updateStudent with a groups list that answers 200 leaves the
\* student with exactly one row for each listed group and none for any
\* other; with the empty list the student has no row, groupAttached is false
\* and no group's students mirror holds the student any more.
C34_UpdateReplacesWholeList ==
    [][\A s \in LiveStudents, input \in GroupsInputs :
          ( /\ last'.op = "updateStudent"
            /\ input.given
            /\ updateStudent(s, input, "none")
            /\ Succeeded(last') )
          => /\ \A g \in Groups :
                   RowsFor(student'[s].groups, g)
                      = IF g \in Range(input.ids) THEN 1 ELSE 0
             /\ input.ids = <<>>
                => /\ student'[s].groups = <<>>
                   /\ ~student'[s].groupAttached
                   /\ \A g \in LiveGroups : s \notin group'[g].students
      ]_vars

\* group g is open and fewer than maxStudents students other than s are
\* active in it
Admits(g, s) ==
    /\ group[g].status \notin ClosedGroupStatuses
    /\ Cardinality(ActiveSeats(g) \ {s}) < group[g].maxStudents

\* C35: after a createStudent or updateStudent with a groups list that
\* succeeds, every membership row of the student is active, whatever status
\* the student held in the listed groups before, and every listed group was
\* open with fewer than maxStudents other students active in it.
C35_ListedGroupsActiveAndAdmitted ==
    [][\A input \in SpelledInputs :
          /\ ( /\ last'.op = "createStudent"
               /\ createStudent(input, "none")
               /\ Succeeded(last') )
             => LET id == NextId(FreshStudents) IN
                /\ \A i \in DOMAIN student'[id].groups :
                      student'[id].groups[i].status = "active"
                /\ \A i \in DOMAIN input.ids : Admits(GroupOf(input.ids[i]), id)
          /\ \A s \in LiveStudents :
                ( /\ last'.op = "updateStudent"
                  /\ updateStudent(s, input, "none")
                  /\ Succeeded(last') )
                => /\ \A i \in DOMAIN student'[s].groups :
                         student'[s].groups[i].status = "active"
                   /\ \A i \in DOMAIN input.ids : Admits(GroupOf(input.ids[i]), s)
      ]_vars

\* no request of SpecCascade is between its first and its last step
NoRequestInFlight == \A p \in DOMAIN req : req[p].pc \in {"idle", "done"}

\* C36: whenever no request is in flight, every membership row of every
\* student references a group that exists, however a deleteGroup was
\* interleaved with the attach and updateStudent requests for the group.
C36_NoRowOfADeletedGroup ==
    NoRequestInFlight
    => \A s \in LiveStudents : \A i \in DOMAIN student[s].groups :
          student[s].groups[i].group \in LiveGroups

\* ---------------------------------------------------- auth.controller.js
ALLOWED_ROLES == {"teacher", "supporteacher", "headteacher", "admin", "superadmin"}
ADMIN_REGISTERABLE_ROLES == {"teacher", "supporteacher", "headteacher"}
SUPERADMIN_REGISTERABLE_ROLES == {"teacher", "supporteacher", "headteacher", "admin"}
ADMIN_MANAGEABLE_ROLES == {"teacher", "supporteacher", "headteacher"}

\* lifetime of a refresh token ('7d') on the clock of the model, whose unit
\* is the second of the iat claim
RefreshTtl == 2

\* a refresh token: jwt.sign({ id }, secret, { expiresIn }) adds iat, the
\* second of the signature, and nothing else, so the string is a function of
\* the id, the second and the secret
NoRefreshToken == [signed |-> FALSE, id |-> 0, iat |-> 0]
GenerateRefreshToken(id) == [signed |-> TRUE, id |-> id, iat |-> now]

\* jwt.verify: TRUE when it returns the payload, FALSE when it throws
VerifyRefreshToken(token) == token.signed /\ now < token.iat + RefreshTtl

\* the user documents: account[u] holds the role and the stored refresh token
ExistingUsers == {u \in UserIds : account[u].role # NoUser}

\* the user ids a client can write: both spellings of every id
SpelledUserIds == UserIds \cup {0 - u : u \in UserIds}
UserOf(userId) == IF userId < 0 THEN 0 - userId ELSE userId

\* hasPermission(role, 'users:manage_roles')
MayManageRoles(role) == role \in {"admin", "superadmin"}

\* String(req.body.role || '').trim().toLowerCase()
NormalizedRole(role) == IF role = NoRole THEN "" ELSE RequestedRole(role)

\* the register route: requireRegisterPermission, then the controller with
\* req.user = actor.  fieldsOk: the scalar fields pass their checks;
\* duplicate: the phone or the email is taken
register(actor, role, fieldsOk, duplicate) ==
    LET requestedRole == RequestedRole(role)
        creatorRole == account[actor].role
        canCreateRequestedRole ==
            IF creatorRole = "superadmin"
            THEN requestedRole \in SUPERADMIN_REGISTERABLE_ROLES
            ELSE IF creatorRole = "admin"
            THEN requestedRole \in ADMIN_REGISTERABLE_ROLES
            ELSE FALSE
        absent == UserIds \ ExistingUsers
        refuse(code, reason) ==
            /\ last' = Result("register", code, reason)
            /\ account' = account
    IN /\ actor \in ExistingUsers
       /\ IF ~canCreateRoleViaRegister(creatorRole, requestedRole)
          THEN refuse(403, "middleware")
          ELSE IF ~fieldsOk THEN refuse(400, "fields")
          ELSE IF requestedRole \notin ALLOWED_ROLES THEN refuse(400, "badrole")
          ELSE IF requestedRole = "superadmin" THEN refuse(403, "superadmin")
          ELSE IF ~canCreateRequestedRole THEN refuse(403, "creator")
          ELSE IF duplicate THEN refuse(409, "duplicate")
          ELSE /\ absent # {}
               /\ LET id == NextId(absent)
                  IN account' = [account EXCEPT ![id] =
                                    [role |-> requestedRole,
                                     refreshToken |-> GenerateRefreshToken(id)]]
               /\ last' = Result("register", 201, "ok")
       /\ UNCHANGED <<student, group, served, now, req, isResetRunning,
                      lastResetRunAt, call>>

\* variant: an admin is only held to the roles it may assign
AdminRefusal_roleOnly(role, userRole) ==
    IF role \notin ADMIN_MANAGEABLE_ROLES THEN "adminrole" ELSE "ok"

\* the block guarded by req.user.role === 'admin'
AdminRefusal(role, userRole) ==
    IF role \notin ADMIN_MANAGEABLE_ROLES THEN "adminrole"
    ELSE IF userRole \in {"admin", "superadmin"} THEN "admintarget"
    ELSE "ok"

\* the route: requireAuth, allowPermissions('users:manage_roles'), then the
\* controller; the actor's id is compared with the id as the client wrote it
updateUserRole(actor, userId, bodyRole) ==
    LET role == NormalizedRole(bodyRole)
        actorRole == account[actor].role
        user == account[UserOf(userId)]
        refuse(code, reason) ==
            /\ last' = Result("updateUserRole", code, reason)
            /\ account' = account
    IN /\ actor \in ExistingUsers
       /\ IF ~MayManageRoles(actorRole) THEN refuse(403, "permission")
          ELSE IF role \notin ALLOWED_ROLES THEN refuse(400, "badrole")
          ELSE IF actor = userId /\ role # "superadmin" THEN refuse(400, "self")
          ELSE IF user.role = NoUser THEN refuse(404, "nouser")
          ELSE IF actorRole = "admin" /\ AdminRefusal(role, user.role) # "ok"
          THEN refuse(403, AdminRefusal(role, user.role))
          ELSE IF actorRole = "superadmin" /\ role = "superadmin" /\ user.role # "superadmin"
          THEN refuse(403, "bootstrap")
          ELSE /\ account' = [account EXCEPT ![UserOf(userId)].role = role]
               /\ last' = Result("updateUserRole", 200, "ok")
       /\ UNCHANGED <<student, group, served, now, req, isResetRunning,
                      lastResetRunAt, call>>

\* the users of the stub: a superadmin, an admin, a teacher, and an id that
\* no user has yet
InitRoles ==
    /\ student = [s \in Students |-> NoStudent]
    /\ group = [g \in Groups |-> NoGroup]
    /\ last = Result("init", 0, "ok")
    /\ served = 0
    /\ now = Epoch
    /\ req = [p \in Procs |-> IdleRegister]
    /\ isResetRunning = FALSE
    /\ lastResetRunAt = 0
    /\ call = [c \in Calls |-> IdleCall]
    /\ account = [u \in UserIds |-> [role |-> Users[u], refreshToken |-> NoRefreshToken]]

\* role requests are served one after the other
NextRoles ==
    \/ \E actor \in UserIds, role \in RoleInputs, fieldsOk \in BOOLEAN, duplicate \in BOOLEAN :
          register(actor, role, fieldsOk, duplicate)
    \/ \E actor \in UserIds, userId \in SpelledUserIds, role \in RoleInputs :
          updateUserRole(actor, userId, role)

SpecRoles == InitRoles /\ [][NextRoles]_vars

\* C38: no register and no updateUserRole request, whatever the role of its
\* actor, leaves an account with the role superadmin that did not have it
\* before; and an updateUserRole request of an admin changes the role of no
\* account that is admin or superadmin and gives no account the role admin
\* or superadmin.
C38_NoEscalation ==
    [][/\ \A u \in UserIds :
             account'[u].role = "superadmin" => account[u].role = "superadmin"
       /\ (last'.op = "updateUserRole" /\ account' # account)
          => \A actor \in ExistingUsers :
                account[actor].role = "admin"
                => \A userId \in SpelledUserIds, role \in RoleInputs :
                      updateUserRole(actor, userId, role)
                      => \A u \in UserIds :
                            account'[u].role # account[u].role
                            => /\ account[u].role \notin {"admin", "superadmin"}
                               /\ account'[u].role \notin {"admin", "superadmin"}
      ]_vars

\* an admin was refused the change of an admin or superadmin account after
\* it had changed the role of another account
C38_Witness ==
    /\ last.op = "updateUserRole"
    /\ last.code = 403
    /\ last.reason = "admintarget"
    /\ account[3].role = "headteacher"
    /\ account[2].role = "admin"

\* ------------------------------------------------ login, refresh, logout
\* what the clients hold: every refresh token issued so far, the tokens a
\* successful refreshToken call was made with, and the tokens issued to a
\* user before a logout that no login of the user has followed
NoTokens == [issued |-> {}, spent |-> {}, revoked |-> {}]

\* the tokens a client can present: the ones issued, a string that is not a
\* token of this server, the token of a user that is gone, and no token
RefreshInputs ==
    req.issued \cup {NoRefreshToken,
                     [signed |-> FALSE, id |-> 1, iat |-> Epoch],
                     [signed |-> TRUE, id |-> 4, iat |-> Epoch]}

Session == UNCHANGED <<student, group, served, now, isResetRunning, lastResetRunAt, call>>

\* user.refreshToken = refreshToken; await user.save(...)
Issue(u) ==
    /\ account' = [account EXCEPT ![u].refreshToken = GenerateRefreshToken(u)]

login(u, passwordOk) ==
    /\ Session
    /\ IF account[u].role = NoUser
       THEN /\ last' = Result("login", 404, "nouser")
            /\ UNCHANGED <<account, req>>
       ELSE IF ~passwordOk
       THEN /\ last' = Result("login", 401, "credentials")
            /\ UNCHANGED <<account, req>>
       ELSE /\ Issue(u)
            /\ req' = [req EXCEPT
                         !.issued = @ \cup {GenerateRefreshToken(u)},
                         !.revoked = {t \in @ : t.id # u}]
            /\ last' = Result("login", 200, "ok")

refreshToken(token) ==
    /\ Session
    /\ IF token = NoRefreshToken
       THEN /\ last' = Result("refreshToken", 400, "required")
            /\ UNCHANGED <<account, req>>
       ELSE IF ~VerifyRefreshToken(token)
       THEN /\ last' = Result("refreshToken", 401, "invalid")
            /\ UNCHANGED <<account, req>>
       ELSE IF \/ account[token.id].role = NoUser
               \/ account[token.id].refreshToken = NoRefreshToken
       THEN /\ last' = Result("refreshToken", 401, "nouser")
            /\ UNCHANGED <<account, req>>
       ELSE IF account[token.id].refreshToken # token
       THEN /\ last' = Result("refreshToken", 401, "mismatch")
            /\ UNCHANGED <<account, req>>
       ELSE /\ Issue(token.id)
            /\ req' = [req EXCEPT
                         !.issued = @ \cup {GenerateRefreshToken(token.id)},
                         !.spent = @ \cup {token}]
            /\ last' = Result("refreshToken", 200, "ok")

\* behind requireAuth, which found the user of the access token
logout(u) ==
    /\ Session
    /\ u \in ExistingUsers
    /\ account' = [account EXCEPT ![u].refreshToken = NoRefreshToken]
    /\ req' = [req EXCEPT !.revoked = @ \cup {t \in req.issued : t.id = u}]
    /\ last' = Result("logout", 200, "ok")

InitSession ==
    /\ student = [s \in Students |-> NoStudent]
    /\ group = [g \in Groups |-> NoGroup]
    /\ last = Result("init", 0, "ok")
    /\ served = 0
    /\ now = Epoch
    /\ req = NoTokens
    /\ isResetRunning = FALSE
    /\ lastResetRunAt = 0
    /\ call = [c \in Calls |-> IdleCall]
    /\ account = [u \in UserIds |-> [role |-> Users[u], refreshToken |-> NoRefreshToken]]

\* the requests are served one after the other; the clock moves between them
NextSession ==
    \/ Tick
    \/ \E u \in UserIds, passwordOk \in BOOLEAN : login(u, passwordOk)
    \/ \E token \in RefreshInputs : refreshToken(token)
    \/ \E u \in UserIds : logout(u)

SpecSession == InitSession /\ [][NextSession]_vars

\* C37: a refresh token is accepted once and can be revoked: a refreshToken
\* call answers 200 only for a token that no successful refreshToken call
\* was made with before, that is the token issued last to its user, and that
\* was not issued before a logout of the user which no login has followed.
C37_RefreshTokenSingleUse ==
    [][\A token \in RefreshInputs :
          (refreshToken(token) /\ last'.code = 200)
          => /\ token \notin req.spent
             /\ token \notin req.revoked
             /\ token = account[token.id].refreshToken
      ]_vars

\* ------------------------------------------- configuration of the sweep
\* the interval constants on the scale of DEFAULT_MIN_GAP_MS and MinGapFloor,
\* and the largest delay a timer of the runtime takes (2^31 - 1 ms): floor of
\* the gap < default gap < floor of the interval < default interval < limit
IntervalFloor == 4
DEFAULT_INTERVAL_MS == 6
TIMEOUT_MAX == 8

\* process.env.X: not set, a text that is no number, or the text of a number
EnvNumbers == (0 - 1)..(TIMEOUT_MAX + 1)
EnvInputs ==
    {[kind |-> "unset", value |-> 0], [kind |-> "text", value |-> 0]}
    \cup {[kind |-> "number", value |-> n] : n \in EnvNumbers}

\* Number(env) || fallback: NaN and 0 are falsy
NumberOr(env, fallback) ==
    IF env.kind # "number" \/ env.value = 0 THEN fallback ELSE env.value

\* Math.max(Number(process.env.STUDENT_BALANCE_RESET_MIN_GAP_MS) || DEFAULT_MIN_GAP_MS, 10 * 1000)
MinGapMsOf(env) == Max(NumberOr(env, DEFAULT_MIN_GAP_MS), MinGapFloor)

\* Math.max(Number(process.env.STUDENT_BALANCE_RESET_INTERVAL_MS) || DEFAULT_INTERVAL_MS, 60 * 1000)
IntervalMsOf(env) == Max(NumberOr(env, DEFAULT_INTERVAL_MS), IntervalFloor)

\* setInterval(callback, delay): a delay above the limit or below 1 is set to 1
TimerDelay(delay) == IF delay > TIMEOUT_MAX \/ delay < 1 THEN 1 ELSE delay

\* the process: its environment, the interval it computed, the period of its
\* timer, and the gap computed by a call
Configurations ==
    [pc : {"loaded"}, gapEnv : EnvInputs, intervalEnv : EnvInputs,
     intervalMs : {0}, period : {0}, minGapMs : {0}]

startStudentBalanceResetJob ==
    /\ req.pc = "loaded"
    /\ req' = [req EXCEPT !.pc = "started",
                          !.intervalMs = IntervalMsOf(req.intervalEnv),
                          !.period = TimerDelay(IntervalMsOf(req.intervalEnv))]
    /\ UNCHANGED <<student, group, last, served, now, sweepVars>>

\* the first lines of resetStudentBalancesIfNeeded
ReadMinGap ==
    /\ req.pc = "started"
    /\ req' = [req EXCEPT !.pc = "called", !.minGapMs = MinGapMsOf(req.gapEnv)]
    /\ UNCHANGED <<student, group, last, served, now, sweepVars>>

InitConfig ==
    /\ student = [s \in Students |-> NoStudent]
    /\ group = [g \in Groups |-> NoGroup]
    /\ last = Result("init", 0, "ok")
    /\ served = 0
    /\ now = Epoch
    /\ req \in Configurations
    /\ isResetRunning = FALSE
    /\ lastResetRunAt = 0
    /\ call = [c \in Calls |-> IdleCall]
    /\ account = [s \in Students |-> NoAccount]

NextConfig ==
    \/ startStudentBalanceResetJob
    \/ ReadMinGap

SpecConfig == InitConfig /\ [][NextConfig]_vars

\* the variable is set to a number other than 0 (0, like no value and like a
\* text that is no number, leaves the default in place)
Configured(env) == env.kind = "number" /\ env.value # 0

\* C39: the gap of the throttle is the larger of the configured gap and the
\* floor of 10 s, the period of the timer is the larger of the configured
\* interval and the floor of 60 s, without a configured value they are the
\* defaults (5 min, 1 h), and under no configuration is the gap below 10 s
\* or the period below 60 s.
C39_ConfiguredValuesAreClamped ==
    /\ req.pc = "called"
       => /\ req.minGapMs = IF Configured(req.gapEnv)
                            THEN Max(req.gapEnv.value, MinGapFloor)
                            ELSE DEFAULT_MIN_GAP_MS
          /\ req.minGapMs >= MinGapFloor
    /\ req.pc \in {"started", "called"}
       => /\ req.period = IF Configured(req.intervalEnv)
                          THEN Max(req.intervalEnv.value, IntervalFloor)
                          ELSE DEFAULT_INTERVAL_MS
          /\ req.period >= IntervalFloor

====
